---- MODULE Spec2Model ----
(***************************************************************************)
(* A model of genetic_series: the engine's run loop with restart, tabu and *)
(* two-phase evaluation (pkg/engine), the fitness function and the series  *)
(* evaluators (pkg/series), and the strategies with their admission filter *)
(* and crossover (pkg/strategy).                                           *)
(*                                                                         *)
(* Number representation.  Digit counts are held in tenths of a digit      *)
(* (CorrectDigits = 49.0 is 490).  A partial sum is held as the decimal    *)
(* logarithm of its error against the target, in tenths of a decade        *)
(* (an error ratio of 1e-12 is -120), or as one of the marks "exact",      *)
(* "inf", "nan".  Weighted complexity is held in halves (1.5 is 3).        *)
(* Combined fitness is held in hundredths.  The two sentinels -1e9 and     *)
(* -1e18 are held as -1000000000 and -2000000000: they are only ever       *)
(* compared, and every computed Combined lies strictly above both.         *)
(***************************************************************************)
EXTENDS Integers, Sequences, FiniteSets, TLC

VARIABLES
    \* ---- Engine.Run (pkg/engine/engine.go) ----
    cfg,                    \* e.cfg: Generations, StagnationLimit, F64PromotionThreshold
    pc,                     \* position of Run
    attempt,
    totalGensUsed,
    population,             \* 0..n-1 -> candidate
    fitnesses,              \* 0..n-1 -> Fitness, as returned by the last evaluatePopulation
    results,                \* 0..n-1 -> EvalResult
    evalLog,                \* 0..n-1 -> which evaluators ran on the index in the last evaluation
    bestThisAttempt,
    bestThisAttemptFitness,
    gensSinceImprovement,
    bestFoundAtGen,
    attemptGens,
    endedBy,                \* why the last generation left the inner loop
    hallOfFame,
    tabuSet,
    globalBest,
    globalBestFitness,
    finalReport,
    \* ---- one call of ComputeFitness / ComputeFitnessF64 (pkg/series/fitness.go) ----
    fitPc,                  \* "in": arguments chosen; "big" / "f64": the function has returned
    fitCand,                \* the candidate argument, seen through ContainsVar and Complexity
    fitResult,              \* the EvalResult argument
    fitTgtZero,             \* whether the target argument is 0
    fitOut,                 \* the Fitness returned
    \* ---- one call of EvaluateCandidate / EvaluateCandidateF64 (pkg/series/evaluate.go) ----
    evKind,                 \* "big" or "f64": which evaluator runs
    evPc,                   \* "loop", "after" (the loop is left), "returned"
    evStart,                \* c.Start
    evI,                    \* the loop variable i
    evSum,                  \* sum
    evTermsComputed,        \* termsComputed
    evNextCheckpoint,       \* nextCheckpoint
    evCheckpoints,          \* checkpoints (big) / cpSums, cpIdx, cpCount (f64)
    evSeen,                 \* what the terms at Start, Start+1, ... turned out to be
    evTimedOut,             \* the deadline was found passed
    evOut,                  \* the result returned
    \* ---- a strategy at work (pkg/strategy) ----
    stKind,                 \* "hillclimb" or "tournament"
    stPc,                   \* "new": nothing returned yet; else the operation that returned last
    stPop,                  \* the population returned last: index -> candidate
    \* ---- CrossoverCandidates on a heap of node objects (pkg/strategy) ----
    xoPc,                   \* "parents", "crossed", "mutated"
    xoHeap,                 \* node objects: id -> [op, kids]
    xoParents,              \* roots of a and b: [a |-> [num, den], b |-> [num, den]]
    xoChildren,             \* roots of the two children: [c1 |-> [num, den], c2 |-> ...]
    xoPoints,               \* the crossover points drawn: [num |-> <<idxA, idxB>>, den |-> ...]
    xoBefore,               \* what the child that a mutation does not touch looked like before it
    \* ---- evaluatePopulation and its workers (pkg/engine/engine.go) ----
    wkThreshold,            \* e.cfg.F64PromotionThreshold
    wkPop,                  \* the population of the generation
    wkTabu,                 \* tabuSet
    wkEngine,               \* position of the engine thread
    wkPhase,                \* 1: float64 phase, 2: big.Float phase
    wkNext,                 \* the index the dispatch loop is at
    wkJobs,                 \* the jobs channel: indices sent and not yet received
    wkClosed,               \* the channel is closed
    wkWg,                   \* the WaitGroup counter
    wkWorkers,              \* worker -> [pc, idx]: "none", "range" (at the receive), "job"
    wkFit,                  \* fitnesses
    wkRes,                  \* results
    wkPromote,              \* promote
    wkTook,                 \* index -> workers that received its job in this phase
    wkWrote,                \* array -> index -> workers that wrote the element in this phase
    wkBest,                 \* bestIdx of the generation
    \* ---- a memo table and its callers (mathCache) ----
    mcKind,                 \* which table: "factorial", "dblFact", "fibonacci"
    mcValues,               \* c.values
    mcReaders,              \* the callers holding c.mu for reading
    mcWriter,               \* the caller holding c.mu for writing, or 0
    mcCalls,                \* caller -> [pc, n, i, ok, v]: position, argument, loop index, result
    \* ---- one call of Strategy.Evolve, seen slot by slot (pkg/strategy) ----
    elKind,                 \* "hillclimb" or "tournament"
    elPc,                   \* "called", "returned"
    elN,                    \* len(population)
    elFit,                  \* index -> fitnesses[index].Combined
    elNext,                 \* the next population: slot -> what it holds
    \* ---- one call of analyzeConvergence (pkg/series/evaluate.go) ----
    cvPc,                   \* "called", "returned"
    cvCps,                  \* cps: the checkpoints
    cvOut,                  \* the converged flag returned
    \* ---- one constant fold (unnamed/part_008: foldConstants, simplifyOnce) ----
    fdPc,                   \* "in": operands chosen; "done": the fold has returned
    fdOp,                   \* the operator of the node
    fdA,                    \* the left (or only) constant
    fdB,                    \* the right constant
    fdOut,                  \* the value returned and whether the fold was made
    \* ---- the simplifier applied twice (unnamed/part_008) ----
    smPc,                   \* "in", "out" (applied once), "again" (applied to its output)
    smPass,                 \* "Simplify" or "SimplifyBigFloat"
    smNode,                 \* the tree given
    smOut,                  \* the simplifier's output
    smAgain,                \* the simplifier's output on smOut
    \* ---- Candidate.Clone and a later in-place change (pkg/series, pkg/expr/clone.go) ----
    clPc,
    clHeap,
    clOrig,
    clCopy,
    clSide,
    clBefore,
    \* ---- subtreeMutate (pkg/strategy) with pool.randomTree ----
    muPc,
    muIn,
    muIdx,
    muFresh,
    muOut,
    \* ---- the scan for the best and second best (engine.go 114-128) ----
    sbPc,
    sbN,
    sbFit,
    sbOut,
    \* ---- the checkpoint ring of EvaluateCandidateF64 (evaluate.go 150-225) ----
    rgPc,
    rgRing,
    rgIdx,
    rgCount,
    rgList,
    rgOut,
    \* ---- Simplify, then Eval of both trees (unnamed/part_008, part_007) ----
    eqPc,
    eqNode,
    eqN,
    eqOut,
    eqBefore,
    eqAfter

runVars == <<cfg, pc, attempt, totalGensUsed, population, fitnesses, results, evalLog,
             bestThisAttempt, bestThisAttemptFitness, gensSinceImprovement,
             bestFoundAtGen, attemptGens, endedBy, hallOfFame, tabuSet,
             globalBest, globalBestFitness, finalReport>>

fitVars == <<fitPc, fitCand, fitResult, fitTgtZero, fitOut>>

evVars == <<evKind, evPc, evStart, evI, evSum, evTermsComputed, evNextCheckpoint,
            evCheckpoints, evSeen, evTimedOut, evOut>>

stVars == <<stKind, stPc, stPop>>

xoVars == <<xoPc, xoHeap, xoParents, xoChildren, xoPoints, xoBefore>>

wkVars == <<wkThreshold, wkPop, wkTabu, wkEngine, wkPhase, wkNext, wkJobs, wkClosed, wkWg,
            wkWorkers, wkFit, wkRes, wkPromote, wkTook, wkWrote, wkBest>>

mcVars == <<mcKind, mcValues, mcReaders, mcWriter, mcCalls>>

elVars == <<elKind, elPc, elN, elFit, elNext>>

cvVars == <<cvPc, cvCps, cvOut>>

fdVars == <<fdPc, fdOp, fdA, fdB, fdOut>>

smVars == <<smPc, smPass, smNode, smOut, smAgain>>

clVars == <<clPc, clHeap, clOrig, clCopy, clSide, clBefore>>

muVars == <<muPc, muIn, muIdx, muFresh, muOut>>

sbVars == <<sbPc, sbN, sbFit, sbOut>>

rgVars == <<rgPc, rgRing, rgIdx, rgCount, rgList, rgOut>>

eqVars == <<eqPc, eqNode, eqN, eqOut, eqBefore, eqAfter>>

vars == <<runVars, fitVars, evVars, stVars, xoVars, wkVars, mcVars, elVars, cvVars, fdVars, smVars, clVars, muVars, sbVars, rgVars, eqVars>>

\* what a run of the engine leaves alone
outsideRun == <<fitVars, evVars, stVars, xoVars, wkVars, mcVars, elVars, cvVars, fdVars, smVars, clVars, muVars, sbVars, rgVars, eqVars>>
\* what a call of the fitness functions leaves alone
outsideFit == <<runVars, evVars, stVars, xoVars, wkVars, mcVars, elVars, cvVars, fdVars, smVars, clVars, muVars, sbVars, rgVars, eqVars>>
\* what a call of an evaluator leaves alone
outsideEval == <<runVars, fitVars, stVars, xoVars, wkVars, mcVars, elVars, cvVars, fdVars, smVars, clVars, muVars, sbVars, rgVars, eqVars>>
\* what a strategy leaves alone
outsideStrat == <<runVars, fitVars, evVars, xoVars, wkVars, mcVars, elVars, cvVars, fdVars, smVars, clVars, muVars, sbVars, rgVars, eqVars>>
\* what a crossover leaves alone
outsideCrossover == <<runVars, fitVars, evVars, stVars, wkVars, mcVars, elVars, cvVars, fdVars, smVars, clVars, muVars, sbVars, rgVars, eqVars>>
\* what an evaluation by the workers leaves alone
outsideWorkers == <<runVars, fitVars, evVars, stVars, xoVars, mcVars, elVars, cvVars, fdVars, smVars, clVars, muVars, sbVars, rgVars, eqVars>>
\* what a call of a memoized function leaves alone
outsideMemo == <<runVars, fitVars, evVars, stVars, xoVars, wkVars, elVars, cvVars, fdVars, smVars, clVars, muVars, sbVars, rgVars, eqVars>>
\* what a call of Evolve, seen slot by slot, leaves alone
outsideElitism == <<runVars, fitVars, evVars, stVars, xoVars, wkVars, mcVars, cvVars, fdVars, smVars, clVars, muVars, sbVars, rgVars, eqVars>>
\* what a call of analyzeConvergence leaves alone
outsideConv == <<runVars, fitVars, evVars, stVars, xoVars, wkVars, mcVars, elVars, fdVars, smVars, clVars, muVars, sbVars, rgVars, eqVars>>

outsideFold == <<runVars, fitVars, evVars, stVars, xoVars, wkVars, mcVars, elVars, cvVars, smVars, clVars, muVars, sbVars, rgVars, eqVars>>

outsideSimp == <<runVars, fitVars, evVars, stVars, xoVars, wkVars, mcVars, elVars, cvVars, fdVars, clVars, muVars, sbVars, rgVars, eqVars>>

outsideClone == <<runVars, fitVars, evVars, stVars, xoVars, wkVars, mcVars, elVars, cvVars, fdVars, smVars, muVars, sbVars, rgVars, eqVars>>

outsideMutate == <<runVars, fitVars, evVars, stVars, xoVars, wkVars, mcVars, elVars, cvVars, fdVars, smVars, clVars, sbVars, rgVars, eqVars>>

outsideScan == <<runVars, fitVars, evVars, stVars, xoVars, wkVars, mcVars, elVars, cvVars, fdVars, smVars, clVars, muVars, rgVars, eqVars>>

outsideRing == <<runVars, fitVars, evVars, stVars, xoVars, wkVars, mcVars, elVars, cvVars, fdVars, smVars, clVars, muVars, sbVars, eqVars>>

outsideEquiv == <<runVars, fitVars, evVars, stVars, xoVars, wkVars, mcVars, elVars, cvVars, fdVars, smVars, clVars, muVars, sbVars, rgVars>>

Min(a, b) == IF a < b THEN a ELSE b
Max(a, b) == IF a > b THEN a ELSE b

(***************************************************************************)
(* pkg/series/fitness.go                                                   *)
(***************************************************************************)
MaxDigits == 50
maxDigitsF64 == 15
AccuracyWeight == 10
ComplexityWeight == 2
WorstCombined == -1000000000
InitCombined == -2000000000
\* the 1e50 rejection threshold, as a decimal exponent
DivergeExp == 50
\* largest decimal exponent (in tenths) whose value converts to float64 zero,
\* and the largest one whose value converts to a finite float64
F64ZeroExp == -3240
F64MaxExp == 3082

WorstFitness == [Combined |-> WorstCombined, CorrectDigits |-> 0]

\* A partial sum, seen through its error against the target: k is "nil" (no
\* sum), "exact" (error 0), "fin" (error ratio 10^(e/10)), "inf" or "nan".
Sum(k, e) == [k |-> k, e |-> e]
NilSum == Sum("nil", 0)

\* EvalResult / EvalResultF64, and the zero values EvalResult{} and Fitness{}
Res(ok, conv, sum) == [OK |-> ok, Converged |-> conv, PartialSum |-> sum]
ZeroResult == Res(FALSE, FALSE, NilSum)
ZeroFitness == [Combined |-> 0, CorrectDigits |-> 0]

\* float64 image of an error ratio (big.Float.Float64): underflow gives 0
ToFloat64(err) ==
    IF err.k = "fin" /\ err.e <= F64ZeroExp THEN Sum("exact", 0)
    ELSE IF err.k = "fin" /\ err.e > F64MaxExp THEN Sum("inf", 0)
    ELSE err

\* -log10 of a positive finite float64 error, in tenths of a digit
NegLog10(err) == 0 - err.e

countCorrectDigits(computed, tgtZero) ==
    IF computed.k = "nil" THEN 0
    ELSE IF computed.k = "exact" THEN MaxDigits * 10
    ELSE IF tgtZero
         THEN IF ToFloat64(computed).k = "exact" THEN MaxDigits * 10
              ELSE Max(0, NegLog10(computed))
    ELSE IF ToFloat64(computed).k = "exact" THEN MaxDigits * 10
    ELSE Max(0, NegLog10(computed))

countCorrectDigitsF64(computed, tgtZero) ==
    IF computed.k = "exact" THEN maxDigitsF64 * 10
    ELSE IF tgtZero THEN Max(0, Min(NegLog10(computed), maxDigitsF64 * 10))
    ELSE IF ToFloat64(computed).k = "exact" THEN maxDigitsF64 * 10
    ELSE Max(0, Min(NegLog10(computed), maxDigitsF64 * 10))

\* a rejection that only looks for non-finite values
Diverged_NonFiniteOnly(err) == err.k \in {"inf", "nan"}

\* math.IsInf(ratio) || math.IsNaN(ratio) || ratio > 1e50
Diverged(err) ==
    \/ err.k \in {"inf", "nan"}
    \/ err.k = "fin" /\ err.e > DivergeExp * 10

\* Combined = Accuracy*D - Complexity*C*min(D,5)/5, in hundredths
CombinedOf(digits, complexity) ==
    10 * AccuracyWeight * digits - ComplexityWeight * complexity * Min(digits, 50)

\* c: [numVar, denVar, complexity] stands for ContainsVar(c.Numerator),
\* ContainsVar(c.Denominator) and c.Complexity()
ComputeFitness(c, result, tgtZero) ==
    IF ~result.OK THEN WorstFitness
    ELSE IF ~c.numVar /\ ~c.denVar THEN WorstFitness
    ELSE IF ~c.denVar THEN WorstFitness
    ELSE IF ~result.Converged THEN WorstFitness
    ELSE IF result.PartialSum.k # "nil" /\ Diverged(ToFloat64(result.PartialSum))
         THEN WorstFitness
    ELSE LET correctDigits == countCorrectDigits(result.PartialSum, tgtZero)
         IN  [Combined |-> CombinedOf(correctDigits, c.complexity),
              CorrectDigits |-> correctDigits]

ComputeFitnessF64(c, result, tgtZero) ==
    IF ~result.OK THEN WorstFitness
    ELSE IF ~c.numVar /\ ~c.denVar THEN WorstFitness
    ELSE IF ~c.denVar THEN WorstFitness
    ELSE IF ~result.Converged THEN WorstFitness
    ELSE IF Diverged(result.PartialSum) THEN WorstFitness
    ELSE LET correctDigits == countCorrectDigitsF64(result.PartialSum, tgtZero)
         IN  [Combined |-> CombinedOf(correctDigits, c.complexity),
              CorrectDigits |-> correctDigits]

(***************************************************************************)
(* One call of ComputeFitness or ComputeFitnessF64 on chosen arguments     *)
(***************************************************************************)
\* Weighted complexities (in halves) the candidate argument is drawn from.
ComplexitySamples == {0, 9}

\* Partial sums the result argument is drawn from: none, exact, an error
\* that underflows float64, 1e-12, 1, exactly 1e50, just above 1e50, an error
\* that overflows float64, and the non-finite values.
SumSamples ==
    {NilSum, Sum("exact", 0), Sum("fin", F64ZeroExp - 10), Sum("fin", -520),
     Sum("fin", -120),
     Sum("fin", 0), Sum("fin", DivergeExp * 10), Sum("fin", DivergeExp * 10 + 1),
     Sum("fin", 3090), Sum("inf", 0), Sum("nan", 0)}

FitIdle ==
    /\ fitPc = "idle"
    /\ fitCand = [numVar |-> FALSE, denVar |-> FALSE, complexity |-> 0]
    /\ fitResult = ZeroResult
    /\ fitTgtZero = FALSE
    /\ fitOut = ZeroFitness

FitInit ==
    /\ fitPc = "in"
    /\ fitCand \in [numVar : BOOLEAN, denVar : BOOLEAN, complexity : ComplexitySamples]
    /\ fitResult \in {Res(ok, conv, sum) : ok \in BOOLEAN, conv \in BOOLEAN,
                                           sum \in SumSamples}
    /\ fitTgtZero \in BOOLEAN
    /\ fitOut = ZeroFitness

\* ComputeFitness: a *big.Float partial sum is nil or a number, never NaN.
CallComputeFitness ==
    /\ fitPc = "in"
    /\ fitResult.PartialSum.k # "nan"
    /\ fitOut' = ComputeFitness(fitCand, fitResult, fitTgtZero)
    /\ fitPc' = "big"
    /\ UNCHANGED <<fitCand, fitResult, fitTgtZero>>
    /\ UNCHANGED outsideFit

\* ComputeFitnessF64: a float64 partial sum is never nil.
CallComputeFitnessF64 ==
    /\ fitPc = "in"
    /\ fitResult.PartialSum.k # "nil"
    /\ fitOut' = ComputeFitnessF64(fitCand, fitResult, fitTgtZero)
    /\ fitPc' = "f64"
    /\ UNCHANGED <<fitCand, fitResult, fitTgtZero>>
    /\ UNCHANGED outsideFit

FitNext == CallComputeFitness \/ CallComputeFitnessF64

(***************************************************************************)
(* pkg/series/evaluate.go: EvaluateCandidate and EvaluateCandidateF64      *)
(*                                                                         *)
(* Term values are small integers; a partial sum is Sum("val", v).  What   *)
(* the two trees evaluate to at an index is an input of the step that     *)
(* reaches the index.                                                      *)
(***************************************************************************)
EvalMaxTerms == 5
TermVals == {0, 1, 4}

Outcome(k, v) == [k |-> k, v |-> v]
\* the term is computed; Numerator.Eval fails; Denominator.Eval fails; the
\* denominator is zero
TermOutcomes == {Outcome("term", v) : v \in TermVals}
FailOutcomes == {Outcome("numFail", 0), Outcome("denFail", 0), Outcome("denZero", 0)}
\* float64 only: the term is computed and takes the sum to Inf or NaN
HugeOutcome == Outcome("huge", 0)

EvalResult(ok, conv, sum, terms) ==
    [OK |-> ok, Converged |-> conv, PartialSum |-> sum, TermsComputed |-> terms]
\* EvalResult{OK: false} and EvalResultF64{OK: false}
InvalidResult == EvalResult(FALSE, FALSE, NilSum, 0)
InvalidResultF64 == EvalResult(FALSE, FALSE, Sum("val", 0), 0)

Abs(x) == IF x < 0 THEN 0 - x ELSE x

\* a threshold of three terms
EnoughTerms_Three(termsComputed) == ~(termsComputed < 3)

\* lines 71 and 190: termsComputed < 4 gives an invalid result
EnoughTerms(termsComputed) == ~(termsComputed < 4)

\* The smallest positive float64 (2^-1074), in the unit the checkpoint sums
\* are counted in: a big.Float holds smaller magnitudes, a float64 does not.
SmallestFloat64 == 2

\* line 102, diff.Float64() of a non-negative difference: a magnitude below
\* the float64 range becomes 0.  The rounding of the mantissa to 53 bits is
\* left out.
Float64(d) == IF d < SmallestFloat64 THEN 0 ELSE d

\* analyzeConvergence: diffs between consecutive checkpoints; the ratios
\* diffs[i]/diffs[i-1] are summed as a fraction tn/td.
RECURSIVE RatioScan(_, _, _, _, _, _)
RatioScan(diffs, i, tn, td, valid, converging) ==
    IF i > Len(diffs)
    THEN [tn |-> tn, td |-> td, valid |-> valid, converging |-> converging]
    ELSE IF diffs[i - 1] = 0
         THEN RatioScan(diffs, i + 1, tn, td, valid, converging)
    ELSE RatioScan(diffs, i + 1, tn * diffs[i - 1] + diffs[i] * td, td * diffs[i - 1],
                   valid + 1, converging /\ ~(diffs[i] >= diffs[i - 1]))

analyzeConvergence(cps) ==
    IF Len(cps) < 3 THEN FALSE
    ELSE LET diffs == [i \in 1 .. Len(cps) - 1 |->
                          Float64(Abs(cps[i + 1].sum - cps[i].sum))]
             r == RatioScan(diffs, 2, 0, 1, 0, TRUE)
         IN  IF r.valid = 0 THEN TRUE
             ELSE r.converging /\ 100 * r.tn < 99 * r.valid * r.td

\* an analysis that reads the ring in slot order
analyzeConvergenceF64_SlotOrder(ring, count) ==
    IF count < 3 THEN FALSE
    ELSE LET d0 == Abs(ring[2] - ring[1])
             d1 == Abs(ring[3] - ring[2])
         IN  IF d0 = 0 THEN TRUE ELSE 100 * d1 < 99 * d0

\* analyzeConvergenceF64 on the ring buffer of the last three checkpoint sums
analyzeConvergenceF64(ring, count) ==
    IF count < 3 THEN FALSE
    ELSE LET oldest == (count - 3) % 3
             s0 == ring[(oldest % 3) + 1]
             s1 == ring[((oldest + 1) % 3) + 1]
             s2 == ring[((oldest + 2) % 3) + 1]
             d0 == Abs(s1 - s0)
             d1 == Abs(s2 - s1)
         IN  IF d0 = 0 THEN TRUE ELSE 100 * d1 < 99 * d0

NoCheckpoints == [list |-> <<>>, ring |-> <<0, 0, 0>>, cpIdx |-> 0, cpCount |-> 0]

EvalIdle ==
    /\ evKind = "none"
    /\ evPc = "idle"
    /\ evStart = 0
    /\ evI = 0
    /\ evSum = 0
    /\ evTermsComputed = 0
    /\ evNextCheckpoint = 1
    /\ evCheckpoints = NoCheckpoints
    /\ evSeen = <<>>
    /\ evTimedOut = FALSE
    /\ evOut = InvalidResult

\* Lines 24-32 and 147-154: the state on entry to the loop.
EvalInit ==
    /\ evKind \in {"big", "f64"}
    /\ evPc = "loop"
    /\ evStart \in {0, 1}
    /\ evI = evStart
    /\ evSum = 0
    /\ evTermsComputed = 0
    /\ evNextCheckpoint = 1
    /\ evCheckpoints = NoCheckpoints
    /\ evSeen = <<>>
    /\ evTimedOut = FALSE
    /\ evOut = InvalidResult

InLoop == evPc = "loop" /\ evI < evStart + EvalMaxTerms

\* Line 35: the deadline is found passed at the head of an iteration.
TimeoutBig ==
    /\ evKind = "big" /\ InLoop
    /\ evTimedOut' = TRUE
    /\ evOut' = InvalidResult
    /\ evPc' = "returned"
    /\ UNCHANGED <<evKind, evStart, evI, evSum, evTermsComputed, evNextCheckpoint,
                   evCheckpoints, evSeen>>
    /\ UNCHANGED outsideEval

\* Lines 39-67: one iteration of EvaluateCandidate within the deadline.
StepBig ==
    /\ evKind = "big" /\ InLoop
    /\ \E o \in TermOutcomes \cup FailOutcomes :
         /\ evSeen' = Append(evSeen, o)
         /\ IF o.k # "term"
            THEN /\ evPc' = "after"
                 /\ UNCHANGED <<evI, evSum, evTermsComputed, evNextCheckpoint,
                                evCheckpoints>>
            ELSE LET sum == evSum + o.v
                     offset == evI - evStart + 1
                 IN  /\ evSum' = sum
                     /\ evTermsComputed' = evTermsComputed + 1
                     /\ IF offset = evNextCheckpoint
                        THEN /\ evCheckpoints' =
                                  [evCheckpoints EXCEPT
                                      !.list = Append(@, [terms |-> offset, sum |-> sum])]
                             /\ evNextCheckpoint' = evNextCheckpoint * 2
                        ELSE UNCHANGED <<evCheckpoints, evNextCheckpoint>>
                     /\ evI' = evI + 1
                     /\ evPc' = "loop"
    /\ UNCHANGED <<evKind, evStart, evTimedOut, evOut>>
    /\ UNCHANGED outsideEval

\* Lines 157-187: one iteration of EvaluateCandidateF64.
StepF64 ==
    /\ evKind = "f64" /\ InLoop
    /\ \E o \in TermOutcomes \cup FailOutcomes \cup {HugeOutcome} :
         /\ evSeen' = Append(evSeen, o)
         /\ IF o.k \in {"numFail", "denFail", "denZero"}
            THEN /\ evPc' = "after"
                 /\ UNCHANGED <<evI, evSum, evTermsComputed, evNextCheckpoint,
                                evCheckpoints, evOut>>
            ELSE IF o.k = "huge"
            THEN /\ evTermsComputed' = evTermsComputed + 1
                 /\ evOut' = InvalidResultF64
                 /\ evPc' = "returned"
                 /\ UNCHANGED <<evI, evSum, evNextCheckpoint, evCheckpoints>>
            ELSE LET sum == evSum + o.v
                     offset == evI - evStart + 1
                 IN  /\ evSum' = sum
                     /\ evTermsComputed' = evTermsComputed + 1
                     /\ IF offset = evNextCheckpoint
                        THEN /\ evCheckpoints' =
                                  [evCheckpoints EXCEPT
                                      !.ring[(evCheckpoints.cpIdx % 3) + 1] = sum,
                                      !.cpIdx = @ + 1,
                                      !.cpCount = @ + 1]
                             /\ evNextCheckpoint' = evNextCheckpoint * 2
                        ELSE UNCHANGED <<evCheckpoints, evNextCheckpoint>>
                     /\ evI' = evI + 1
                     /\ evPc' = "loop"
                     /\ UNCHANGED evOut
    /\ UNCHANGED <<evKind, evStart, evTimedOut>>
    /\ UNCHANGED outsideEval

\* Lines 34 and 156: the loop condition fails after maxTerms iterations.
LoopEnd ==
    /\ evPc = "loop"
    /\ ~(evI < evStart + EvalMaxTerms)
    /\ evPc' = "after"
    /\ UNCHANGED <<evKind, evStart, evI, evSum, evTermsComputed, evNextCheckpoint,
                   evCheckpoints, evSeen, evTimedOut, evOut>>
    /\ UNCHANGED outsideEval

\* Lines 70-84.
ReturnBig ==
    /\ evKind = "big" /\ evPc = "after"
    /\ evOut' = IF ~EnoughTerms(evTermsComputed) THEN InvalidResult
                ELSE EvalResult(TRUE, analyzeConvergence(evCheckpoints.list),
                                Sum("val", evSum), evTermsComputed)
    /\ evPc' = "returned"
    /\ UNCHANGED <<evKind, evStart, evI, evSum, evTermsComputed, evNextCheckpoint,
                   evCheckpoints, evSeen, evTimedOut>>
    /\ UNCHANGED outsideEval

\* Lines 190-201.
ReturnF64 ==
    /\ evKind = "f64" /\ evPc = "after"
    /\ evOut' = IF ~EnoughTerms(evTermsComputed) THEN InvalidResultF64
                ELSE EvalResult(TRUE,
                                analyzeConvergenceF64(evCheckpoints.ring,
                                                      evCheckpoints.cpCount),
                                Sum("val", evSum), evTermsComputed)
    /\ evPc' = "returned"
    /\ UNCHANGED <<evKind, evStart, evI, evSum, evTermsComputed, evNextCheckpoint,
                   evCheckpoints, evSeen, evTimedOut>>
    /\ UNCHANGED outsideEval

EvalNext == TimeoutBig \/ StepBig \/ StepF64 \/ LoopEnd \/ ReturnBig \/ ReturnF64

(***************************************************************************)
(* pkg/strategy: Initialize and Evolve of the two strategies               *)
(*                                                                         *)
(* A tree is seen through its shape [nodes, depth] (NodeCount, Depth), a   *)
(* candidate through the shapes of its two trees and through where it came *)
(* from: "random" (randomCandidate) or "filtered" (an offspring that passed *)
(* candidateOK); a clone has the origin of its original.                   *)
(***************************************************************************)
maxTreeDepth == 10
maxNodeCount == 25
hillclimbMaxDepth == 4
tournamentMaxDepth == 4
maxMutationDepth == 4
\* hillclimbInjectionRate and eliteRate, in percent
hillclimbInjectionRate == 5
eliteRate == 5

StratPopSize == 2
StIdx == 0 .. StratPopSize - 1

Shape(n, d) == [nodes |-> n, depth |-> d]
Cand(num, den, origin) == [num |-> num, den |-> den, origin |-> origin]

\* pool.randomTree: a leaf at maxDepth <= 1; otherwise a leaf, a unary node
\* over a tree of maxDepth-1, or a binary node over two such trees.
RECURSIVE randomTree(_)
randomTree(maxDepth) ==
    IF maxDepth <= 1 THEN {Shape(1, 1)}
    ELSE LET sub == randomTree(maxDepth - 1)
         IN  {Shape(1, 1)}
             \cup {Shape(1 + c.nodes, 1 + c.depth) : c \in sub}
             \cup {Shape(1 + l.nodes + r.nodes,
                         1 + (IF l.depth > r.depth THEN l.depth ELSE r.depth)) :
                      l \in sub, r \in sub}

\* the smallest and the largest trees of a set of shapes
Extremes(shapes) ==
    {t \in shapes : \/ \A u \in shapes : t.nodes <= u.nodes
                    \/ \A u \in shapes : t.nodes >= u.nodes}

\* shapes followed through mutation, crossover and simplification
TreeSamples == {Shape(1, 1), Shape(15, 4), Shape(10, 7), Shape(12, 11)}

NodeCount(c) == c.num.nodes + c.den.nodes

\* a filter that forgets the node count
candidateOK_DepthOnly(c) == c.num.depth <= maxTreeDepth /\ c.den.depth <= maxTreeDepth

candidateOK(c) ==
    /\ c.num.depth <= maxTreeDepth
    /\ c.den.depth <= maxTreeDepth
    /\ NodeCount(c) <= maxNodeCount

randomCandidate(maxDepth) ==
    {Cand(num, den, "random") : num \in Extremes(randomTree(maxDepth)),
                                den \in Extremes(randomTree(maxDepth))}

Clone(c) == c

\* mutateTree: the six mutations leave the tree as it is, cut it down, wrap
\* one node (growMutate) or hang a randomTree(maxMutationDepth) on one slot
\* (subtreeMutate); the result is any followed shape within that reach.
mutateTree(t) ==
    LET grown == {u.nodes : u \in randomTree(maxMutationDepth)}
    IN  {t} \cup {u \in TreeSamples :
                    /\ u.depth <= t.depth - 1 + maxMutationDepth
                    /\ \E g \in grown : u.nodes <= t.nodes - 1 + g}

\* MutateCandidate: the start index, the numerator or the denominator
MutateCandidate(c) ==
    {c} \cup {Cand(num, c.den, c.origin) : num \in mutateTree(c.num)}
        \cup {Cand(c.num, den, c.origin) : den \in mutateTree(c.den)}

\* SimplifyBigFloat rebuilds a tree, drops nodes or folds a subtree into a
\* constant: the result is the tree or a followed shape that is not larger.
SimplifyBigFloat(t) ==
    {t} \cup {u \in TreeSamples : u.nodes <= t.nodes /\ u.depth <= t.depth}

Simplified(cs) ==
    UNION {{Cand(num, den, c.origin) : num \in SimplifyBigFloat(c.num),
                                       den \in SimplifyBigFloat(c.den)} : c \in cs}

\* "if candidateOK(child) keep it, else randomCandidate": what the offspring
\* cs can end up as
Admit(cs, maxDepth) ==
    {Cand(c.num, c.den, "filtered") : c \in {x \in cs : candidateOK(x)}}
    \cup (IF \E x \in cs : ~candidateOK(x) THEN randomCandidate(maxDepth) ELSE {})

\* crossoverTrees: either tree afterwards is one of the two, or one with a
\* subtree of the other in one of its slots.
crossoverTrees(a, b) ==
    {a, b} \cup {u \in TreeSamples : /\ u.nodes <= a.nodes + b.nodes - 1
                                     /\ u.depth <= a.depth + b.depth - 1}

\* CrossoverCandidates: either child
CrossoverCandidates(a, b) ==
    {Cand(num, den, "offspring") : num \in crossoverTrees(a.num, b.num),
                                   den \in crossoverTrees(a.den, b.den)}

\* tournamentSelect: a clone of the fittest of five draws; five equal draws
\* make any index the winner
tournamentSelect(pop) == {Clone(pop[i]) : i \in StIdx}

FitSamples == {0, 1}

\* the orders sort.Slice can leave n indices in, for a less function
AscendingOrders(fit) ==
    {p \in [1 .. StratPopSize -> StIdx] :
        /\ \A a, b \in 1 .. StratPopSize : a # b => p[a] # p[b]
        /\ \A a, b \in 1 .. StratPopSize : a < b => ~(fit[p[b]] < fit[p[a]])}

DescendingOrders(fit) ==
    {p \in [1 .. StratPopSize -> StIdx] :
        /\ \A a, b \in 1 .. StratPopSize : a # b => p[a] # p[b]
        /\ \A a, b \in 1 .. StratPopSize : a < b => ~(fit[p[b]] > fit[p[a]])}

\* int(float64(n) * rate), at least 1
CountOf(ratePct) ==
    IF (StratPopSize * ratePct) \div 100 < 1 THEN 1 ELSE (StratPopSize * ratePct) \div 100

\* all populations that take the candidate of index i from slots[i]
RECURSIVE Choices(_, _)
Choices(slots, k) ==
    IF k < 0 THEN {<<>>}
    ELSE {f @@ (k :> x) : f \in Choices(slots, k - 1), x \in slots[k]}

HillClimbInitialize == [StIdx -> randomCandidate(hillclimbMaxDepth)]

\* HillClimbStrategy.Evolve
HillClimbEvolve(pop, fit) ==
    UNION {
        LET injectionCount == CountOf(hillclimbInjectionRate)
            bestIdx == ranked[StratPopSize]
            slots == [i \in StIdx |->
                        IF i = bestIdx THEN {Clone(pop[i])}
                        ELSE IF \E k \in 1 .. injectionCount : ranked[k] = i
                        THEN randomCandidate(hillclimbMaxDepth)
                        ELSE Admit(Simplified(MutateCandidate(Clone(pop[i]))),
                                   hillclimbMaxDepth)]
        IN  Choices(slots, StratPopSize - 1) : ranked \in AscendingOrders(fit)}

TournamentInitialize == [StIdx -> randomCandidate(tournamentMaxDepth)]

\* TournamentStrategy.Evolve: the elites, then the offspring of selected
\* parents, mutated or not, simplified and filtered.
TournamentEvolve(pop, fit) ==
    LET eliteCount == CountOf(eliteRate)
        crossed == UNION {CrossoverCandidates(p1, p2) :
                             p1 \in tournamentSelect(pop), p2 \in tournamentSelect(pop)}
        mutated == crossed \cup UNION {MutateCandidate(c) : c \in crossed}
        offspring == Admit(Simplified(mutated), tournamentMaxDepth)
        elites == {[i \in 0 .. eliteCount - 1 |-> indices[i + 1]] :
                      indices \in DescendingOrders(fit)}
    IN  UNION {Choices([i \in StIdx |-> IF i < eliteCount THEN {Clone(pop[e[i]])}
                                        ELSE offspring],
                       StratPopSize - 1) : e \in elites}

StratIdle ==
    /\ stKind = "none"
    /\ stPc = "idle"
    /\ stPop = <<>>

StratInit ==
    /\ stKind \in {"hillclimb", "tournament"}
    /\ stPc = "new"
    /\ stPop = <<>>

InitializeHillClimb ==
    /\ stKind = "hillclimb"
    /\ stPop' \in HillClimbInitialize
    /\ stPc' = "Initialize"
    /\ UNCHANGED stKind
    /\ UNCHANGED outsideStrat

InitializeTournament ==
    /\ stKind = "tournament"
    /\ stPop' \in TournamentInitialize
    /\ stPc' = "Initialize"
    /\ UNCHANGED stKind
    /\ UNCHANGED outsideStrat

EvolveHillClimb ==
    /\ stKind = "hillclimb"
    /\ stPc \in {"Initialize", "Evolve"}
    /\ \E fit \in [StIdx -> FitSamples] : stPop' \in HillClimbEvolve(stPop, fit)
    /\ stPc' = "Evolve"
    /\ UNCHANGED stKind
    /\ UNCHANGED outsideStrat

EvolveTournament ==
    /\ stKind = "tournament"
    /\ stPc \in {"Initialize", "Evolve"}
    /\ \E fit \in [StIdx -> FitSamples] : stPop' \in TournamentEvolve(stPop, fit)
    /\ stPc' = "Evolve"
    /\ UNCHANGED stKind
    /\ UNCHANGED outsideStrat

StratNext ==
    InitializeHillClimb \/ InitializeTournament \/ EvolveHillClimb \/ EvolveTournament

(***************************************************************************)
(* pkg/strategy: CrossoverCandidates on node objects                       *)
(*                                                                         *)
(* The heap is a sequence of node objects; a node's id is its position.    *)
(* An ExprNode value is the id of the node it points to.  A *ExprNode is a *)
(* slot: field k of node object id, or (node 0) a local variable outside   *)
(* the heap.                                                               *)
(***************************************************************************)
Node(op, kids) == [op |-> op, kids |-> kids]
Slot(node, field) == [node |-> node, field |-> field]
\* the parameter of collectNodes, whose address it takes
LocalRoot == Slot(0, 0)

Alloc(h, node) == [h |-> Append(h, node), root |-> Len(h) + 1]

\* Clone (clone.go): a new object for every node
RECURSIVE CloneTree(_, _)
CloneTree(h, r) ==
    IF Len(h[r].kids) = 0 THEN Alloc(h, Node(h[r].op, <<>>))
    ELSE IF Len(h[r].kids) = 1
    THEN LET c == CloneTree(h, h[r].kids[1])
         IN  Alloc(c.h, Node(h[r].op, <<c.root>>))
    ELSE LET l == CloneTree(h, h[r].kids[1])
             rr == CloneTree(l.h, h[r].kids[2])
         IN  Alloc(rr.h, Node(h[r].op, <<l.root, rr.root>>))

\* *slot
Deref(h, root, slot) == IF slot.node = 0 THEN root ELSE h[slot.node].kids[slot.field]

\* *slot = v; a store to the local variable leaves the heap as it is
Store(h, slot, v) ==
    IF slot.node = 0 THEN h ELSE [h EXCEPT ![slot.node].kids[slot.field] = v]

\* collectNodesHelper: the slot, then the slots below the node it holds
RECURSIVE collectNodesHelper(_, _, _)
collectNodesHelper(h, root, slot) ==
    LET id == Deref(h, root, slot)
    IN  IF Len(h[id].kids) = 0 THEN <<slot>>
        ELSE IF Len(h[id].kids) = 1
        THEN <<slot>> \o collectNodesHelper(h, root, Slot(id, 1))
        ELSE <<slot>> \o collectNodesHelper(h, root, Slot(id, 1))
                      \o collectNodesHelper(h, root, Slot(id, 2))

\* collectNodes: slot 0 is the address of its own parameter
collectNodes(h, root) == collectNodesHelper(h, root, LocalRoot)

\* crossoverTrees with the points idxA, idxB (from 1): both right-hand sides
\* are read, then both slots are written; a and b are returned.
crossoverTreesAt(h, a, b, idxA, idxB) ==
    LET nodesA == collectNodes(h, a)
        nodesB == collectNodes(h, b)
    IN  IF Len(nodesA) = 0 \/ Len(nodesB) = 0 THEN [h |-> h, a |-> a, b |-> b]
        ELSE LET va == Deref(h, a, nodesA[idxA])
                 vb == Deref(h, b, nodesB[idxB])
                 h1 == Store(h, nodesA[idxA], vb)
                 h2 == Store(h1, nodesB[idxB], va)
             IN  [h |-> h2, a |-> a, b |-> b]

\* CrossoverCandidates: clone a and b, cross the numerators, then the
\* denominators; pts gives the two pairs of points.
CrossoverCandidatesAt(h, A, B, pts) ==
    LET c1n == CloneTree(h, A.num)
        c1d == CloneTree(c1n.h, A.den)
        c2n == CloneTree(c1d.h, B.num)
        c2d == CloneTree(c2n.h, B.den)
        xn == crossoverTreesAt(c2d.h, c1n.root, c2n.root, pts.num[1], pts.num[2])
        xd == crossoverTreesAt(xn.h, c1d.root, c2d.root, pts.den[1], pts.den[2])
    IN  [h |-> xd.h,
         c1 |-> [num |-> xn.a, den |-> xd.a],
         c2 |-> [num |-> xn.b, den |-> xd.b]]

\* The parent trees: n, -(n), n + 1
TreeTemplates == {"leaf", "unary", "binary"}

BuildTree(h, t) ==
    LET l1 == Alloc(h, Node("n", <<>>))
    IN  IF t = "leaf" THEN l1
        ELSE IF t = "unary" THEN Alloc(l1.h, Node("neg", <<l1.root>>))
        ELSE LET l2 == Alloc(l1.h, Node("1", <<>>))
             IN  Alloc(l2.h, Node("add", <<l1.root, l2.root>>))

\* node ids reachable from r
RECURSIVE ReachFrom(_, _, _)
ReachFrom(h, seen, fuel) ==
    LET more == seen \cup UNION {{h[i].kids[k] : k \in 1 .. Len(h[i].kids)} : i \in seen}
    IN  IF fuel = 0 \/ more = seen THEN seen ELSE ReachFrom(h, more, fuel - 1)

Reach(h, r) == ReachFrom(h, {r}, Len(h))

\* the expression a root stands for, down to a depth
RECURSIVE Render(_, _, _)
Render(h, r, fuel) ==
    IF fuel = 0 THEN <<"...">>
    ELSE <<h[r].op>> \o [k \in 1 .. Len(h[r].kids) |-> Render(h, h[r].kids[k], fuel - 1)]

RenderCand(h, c) == <<Render(h, c.num, Len(h)), Render(h, c.den, Len(h))>>

\* the op a point mutation puts in place of an op
OtherOp(op) ==
    CASE op = "neg" -> "fact"
      [] op = "add" -> "mul"
      [] op = "n" -> "1"
      [] OTHER -> "n"

NoCand == [num |-> 0, den |-> 0]
NoPoints == [num |-> <<0, 0>>, den |-> <<0, 0>>]

XoIdle ==
    /\ xoPc = "idle"
    /\ xoHeap = <<>>
    /\ xoParents = [a |-> NoCand, b |-> NoCand]
    /\ xoChildren = [c1 |-> NoCand, c2 |-> NoCand]
    /\ xoPoints = NoPoints
    /\ xoBefore = <<>>

\* two parents a and b, each the sole owner of its two trees
XoInit ==
    /\ xoPc = "parents"
    /\ \E an, ad, bn, bd \in TreeTemplates :
          LET t1 == BuildTree(<<>>, an)
              t2 == BuildTree(t1.h, ad)
              t3 == BuildTree(t2.h, bn)
              t4 == BuildTree(t3.h, bd)
          IN  /\ xoHeap = t4.h
              /\ xoParents = [a |-> [num |-> t1.root, den |-> t2.root],
                              b |-> [num |-> t3.root, den |-> t4.root]]
    /\ xoChildren = [c1 |-> NoCand, c2 |-> NoCand]
    /\ xoPoints = NoPoints
    /\ xoBefore = <<>>

Size(h, r) == Len(collectNodes(h, r))

\* CrossoverCandidates(a, b, rng): rng.Intn(len(nodes)) draws each point.
Crossover ==
    /\ xoPc = "parents"
    /\ \E nA \in 1 .. Size(xoHeap, xoParents.a.num), nB \in 1 .. Size(xoHeap, xoParents.b.num),
          dA \in 1 .. Size(xoHeap, xoParents.a.den), dB \in 1 .. Size(xoHeap, xoParents.b.den) :
          \E pts \in {[num |-> <<nA, nB>>, den |-> <<dA, dB>>]} :
          \E x \in {CrossoverCandidatesAt(xoHeap, xoParents.a, xoParents.b, pts)} :
             /\ xoHeap' = x.h
             /\ xoChildren' = [c1 |-> x.c1, c2 |-> x.c2]
             /\ xoPoints' = pts
    /\ xoPc' = "crossed"
    /\ UNCHANGED <<xoParents, xoBefore>>
    /\ UNCHANGED outsideCrossover

\* MutateCandidate(c1) by pointMutate on an operator node, or constPerturb on
\* a constant: the node object is changed in place (n.Op = ..., Val += ...).
MutateInPlace ==
    /\ xoPc = "crossed"
    /\ \E r \in {xoChildren.c1.num, xoChildren.c1.den} :
       \E id \in Reach(xoHeap, r) :
          /\ xoHeap[id].op # "n"
          /\ xoHeap' = [xoHeap EXCEPT ![id].op = OtherOp(@)]
    /\ xoBefore' = RenderCand(xoHeap, xoChildren.c2)
    /\ xoPc' = "mutated"
    /\ UNCHANGED <<xoParents, xoChildren, xoPoints>>
    /\ UNCHANGED outsideCrossover

XoNext == Crossover \/ MutateInPlace

(***************************************************************************)
(* pkg/engine/engine.go: configuration and the candidates of the run       *)
(***************************************************************************)
PopSize == 2
GenBudget == 24
UnlimitedCap == 3
StagnationBase == 21
PromotionThreshold == 50
MinPatience == 20
maxHallOfFame == 50

Idx == 0 .. PopSize - 1

\* The candidates the strategies can produce in a run, named by their
\* canonical string; a clone of a candidate is the same value.
Cands == {"slow", "good", "cap"}

\* Structure of each candidate (ContainsVar of both trees, Complexity) and
\* what the two evaluators return for it when they run to completion.
CandShape(c) ==
    CASE c = "slow" -> [numVar |-> FALSE, denVar |-> TRUE,  complexity |-> 6]
      [] c = "good" -> [numVar |-> FALSE, denVar |-> TRUE,  complexity |-> 4]
      [] c = "cap"  -> [numVar |-> TRUE,  denVar |-> TRUE,  complexity |-> 40]

EvaluateCandidateF64Of(c) ==
    CASE c = "slow" -> Res(TRUE, TRUE, Sum("fin", -30))
      [] c = "good" -> Res(TRUE, TRUE, Sum("fin", -50))
      [] c = "cap"  -> Res(TRUE, TRUE, Sum("exact", 0))

\* timedOut: the deadline passed during the evaluation
EvaluateCandidateOf(c, timedOut) ==
    IF timedOut THEN ZeroResult
    ELSE CASE c = "slow" -> Res(TRUE, TRUE, Sum("fin", -95))
           [] c = "good" -> Res(TRUE, TRUE, Sum("fin", -490))
           [] c = "cap"  -> Res(TRUE, TRUE, Sum("fin", -520))

\* candidates whose precise evaluation can run into the deadline
CanTimeOut(c) == c = "slow"

String(c) == c

(***************************************************************************)
(* Engine.evaluatePopulation / Engine.evaluateBigFloat                     *)
(***************************************************************************)
\* a precise evaluation that forgets the tabu lookup
BigJob_NoTabu(pop, tabu, timeouts, i) ==
    LET result == EvaluateCandidateOf(pop[i], i \in timeouts)
    IN  [fitness |-> ComputeFitness(CandShape(pop[i]), result, FALSE),
         result |-> result, ran |-> {"big"}, written |-> TRUE]

\* One job of evaluateBigFloat on index i.
BigJob(pop, tabu, timeouts, i) ==
    IF String(pop[i]) \in tabu
    THEN [fitness |-> WorstFitness, result |-> ZeroResult, ran |-> {}, written |-> FALSE]
    ELSE LET result == EvaluateCandidateOf(pop[i], i \in timeouts)
         IN  [fitness |-> ComputeFitness(CandShape(pop[i]), result, FALSE),
              result |-> result, ran |-> {"big"}, written |-> TRUE]

\* the nil slice
NilPromote == <<>>

\* a phase 2 that dispatches every index, promoted or not
evaluateBigFloat_All(pop, fit, res, log, promote, tabu, timeouts) ==
    LET job(i) == BigJob(pop, tabu, timeouts, i)
    IN  [fitnesses |-> [i \in Idx |-> job(i).fitness],
         results   |-> [i \in Idx |-> IF job(i).written THEN job(i).result ELSE res[i]],
         log       |-> [i \in Idx |-> log[i] \cup job(i).ran]]

\* evaluateBigFloat: jobs are dispatched for promote == nil or promote[i].
evaluateBigFloat(pop, fit, res, log, promote, tabu, timeouts) ==
    LET job(i) == BigJob(pop, tabu, timeouts, i)
        sent(i) == DOMAIN promote = {} \/ promote[i]
    IN  [fitnesses |-> [i \in Idx |-> IF sent(i) THEN job(i).fitness ELSE fit[i]],
         results   |-> [i \in Idx |-> IF sent(i) /\ job(i).written THEN job(i).result
                                      ELSE res[i]],
         log       |-> [i \in Idx |-> IF sent(i) THEN log[i] \cup job(i).ran ELSE log[i]]]

\* a phase 1 that forgets the tabu lookup
F64Job_NoTabu(pop, tabu, threshold, i) ==
    LET r64 == EvaluateCandidateF64Of(pop[i])
        f64 == ComputeFitnessF64(CandShape(pop[i]), r64, FALSE)
    IN  [fitness |-> f64, promote |-> f64.CorrectDigits >= threshold, ran |-> {"f64"}]

\* One job of phase 1 on index i.
F64Job(pop, tabu, threshold, i) ==
    IF String(pop[i]) \in tabu
    THEN [fitness |-> WorstFitness, promote |-> FALSE, ran |-> {}]
    ELSE LET r64 == EvaluateCandidateF64Of(pop[i])
             f64 == ComputeFitnessF64(CandShape(pop[i]), r64, FALSE)
         IN  [fitness |-> f64, promote |-> f64.CorrectDigits >= threshold, ran |-> {"f64"}]

evaluatePopulation(pop, tabu, threshold, timeouts) ==
    LET fit0 == [i \in Idx |-> ZeroFitness]
        res0 == [i \in Idx |-> ZeroResult]
        log0 == [i \in Idx |-> {}]
    IN  IF threshold <= 0
        THEN evaluateBigFloat(pop, fit0, res0, log0, NilPromote, tabu, timeouts)
        ELSE LET job(i) == F64Job(pop, tabu, threshold, i)
                 fit1 == [i \in Idx |-> job(i).fitness]
                 log1 == [i \in Idx |-> job(i).ran]
                 promote == [i \in Idx |-> job(i).promote]
             IN  evaluateBigFloat(pop, fit1, res0, log1, promote, tabu, timeouts)

(***************************************************************************)
(* Engine.Run                                                              *)
(***************************************************************************)
\* The scan for the best and the second best of a generation (lines 115-127).
RECURSIVE FindBest(_, _, _, _)
FindBest(fit, i, bestIdx, secondIdx) ==
    IF i >= PopSize THEN [bestIdx |-> bestIdx, secondIdx |-> secondIdx]
    ELSE IF fit[i].Combined > fit[bestIdx].Combined
         THEN FindBest(fit, i + 1, i, bestIdx)
    ELSE IF secondIdx = -1 \/ fit[i].Combined > fit[secondIdx].Combined
         THEN FindBest(fit, i + 1, bestIdx, IF i # bestIdx THEN i ELSE secondIdx)
    ELSE FindBest(fit, i + 1, bestIdx, secondIdx)

\* a patience whose scale is not cut off at 1.0
EffectiveLimit_Unclamped(base, digits) ==
    LET scaled == (base * digits) \div 100
    IN  IF scaled < MinPatience THEN MinPatience ELSE scaled

\* effectiveLimit (lines 188-196); digits in tenths, so scale = digits/100
EffectiveLimit(base, digits) ==
    LET scaled == (base * Min(digits, 100)) \div 100
    IN  IF scaled < MinPatience THEN MinPatience ELSE scaled

\* Strategy.Initialize: any population of the pool's candidates
Initialize == [Idx -> Cands]

\* a strategy that keeps no elite
Evolve_NoElite(pop, fit) == [Idx -> Cands]

\* Strategy.Evolve: a new population that keeps a clone of a candidate of
\* maximum combined fitness (the elite of either strategy)
Evolve(pop, fit) ==
    {next \in [Idx -> Cands] :
        \E j \in Idx : /\ \A k \in Idx : fit[k].Combined <= fit[j].Combined
                       /\ \E k \in Idx : next[k] = pop[j]}

unlimited == cfg.Generations <= 0

\* a loop condition that lets one generation too many through
InBudget_OneMore == IF unlimited THEN totalGensUsed < UnlimitedCap
                    ELSE totalGensUsed <= cfg.Generations

\* The loop condition of lines 97 and 111.  An unlimited run is followed for
\* UnlimitedCap generations.
InBudget == IF unlimited THEN totalGensUsed < UnlimitedCap
            ELSE totalGensUsed < cfg.Generations

\* a cap test against the fast path's cap
CapReached_F64Cap(fit) == fit.CorrectDigits >= maxDigitsF64 * 10

\* lines 179 and 287: CorrectDigits >= float64(series.MaxDigits)
CapReached(fit) == fit.CorrectDigits >= MaxDigits * 10

\* a global best chosen by correct digits
BetterThanGlobal_ByDigits(fit, gfit) == fit.CorrectDigits > gfit.CorrectDigits

\* line 235: the attempt's best replaces the global best on a higher Combined
BetterThanGlobal(fit, gfit) == fit.Combined > gfit.Combined

\* a stagnation test that does not look at the limit being 0
Stagnated_AnyLimit(base, since, digits) == since >= EffectiveLimit(base, digits)

\* lines 187-201
Stagnated(base, since, digits) == base > 0 /\ since >= EffectiveLimit(base, digits)

\* an attempt that starts from the worst-fitness sentinel
InitFitness_AtWorst == WorstFitness

\* lines 86 and 105: Combined = -1e18, below every fitness
InitFitness == [Combined |-> InitCombined, CorrectDigits |-> 0]
NoFitnesses == [i \in Idx |-> ZeroFitness]
NoResults == [i \in Idx |-> ZeroResult]
NoLog == [i \in Idx |-> {}]

RunInit ==
    /\ cfg \in [Generations : {0, GenBudget},
                StagnationLimit : {0, StagnationBase},
                F64PromotionThreshold : {0, PromotionThreshold}]
    /\ pc = "attempt"
    /\ attempt = 0
    /\ totalGensUsed = 0
    /\ population = <<>>
    /\ fitnesses = NoFitnesses
    /\ results = NoResults
    /\ evalLog = NoLog
    /\ bestThisAttempt = "nil"
    /\ bestThisAttemptFitness = InitFitness
    /\ gensSinceImprovement = 0
    /\ bestFoundAtGen = 0
    /\ attemptGens = 0
    /\ endedBy = "none"
    /\ hallOfFame = <<>>
    /\ tabuSet = {}
    /\ globalBest = "nil"
    /\ globalBestFitness = InitFitness
    /\ finalReport = <<>>

\* Lines 97-109: the outer loop starts an attempt.
StartAttempt ==
    /\ pc = "attempt"
    /\ InBudget
    /\ attempt' = attempt + 1
    /\ population' \in Initialize
    /\ bestThisAttempt' = "nil"
    /\ bestThisAttemptFitness' = InitFitness
    /\ gensSinceImprovement' = 0
    /\ bestFoundAtGen' = 0
    /\ attemptGens' = 0
    /\ endedBy' = "none"
    /\ pc' = "gen"
    /\ UNCHANGED <<cfg, totalGensUsed, fitnesses, results, evalLog, hallOfFame,
                   tabuSet, globalBest, globalBestFitness, finalReport>>
    /\ UNCHANGED outsideRun

\* Lines 111-112: the inner loop enters a generation and evaluates the
\* population; each precise evaluation may or may not meet its deadline.
Evaluate ==
    /\ pc = "gen"
    /\ InBudget
    /\ \E timeouts \in SUBSET {i \in Idx : CanTimeOut(population[i])} :
       \E ev \in {evaluatePopulation(population, tabuSet, cfg.F64PromotionThreshold,
                                     timeouts)} :
            /\ fitnesses' = ev.fitnesses
            /\ results' = ev.results
            /\ evalLog' = ev.log
    /\ pc' = "select"
    /\ UNCHANGED <<cfg, attempt, totalGensUsed, population, bestThisAttempt,
                   bestThisAttemptFitness, gensSinceImprovement, bestFoundAtGen,
                   attemptGens, endedBy, hallOfFame, tabuSet, globalBest,
                   globalBestFitness, finalReport>>
    /\ UNCHANGED outsideRun

\* Lines 114-205: the rest of the generation: best of the generation, the
\* attempt's best, the counters, the two exits, Evolve.  fitnesses and
\* results are locals of the loop body and end with it.
Select ==
    /\ pc = "select"
    /\ \E bestIdx \in {FindBest(fitnesses, 0, 0, -1).bestIdx} :
       \E improved \in {fitnesses[bestIdx].Combined > bestThisAttemptFitness.Combined} :
       \E bestFit \in {IF improved THEN fitnesses[bestIdx] ELSE bestThisAttemptFitness} :
       \E since \in {IF improved THEN 0 ELSE gensSinceImprovement + 1} :
            /\ bestThisAttempt' = IF improved THEN population[bestIdx] ELSE bestThisAttempt
            /\ bestThisAttemptFitness' = bestFit
            /\ bestFoundAtGen' = IF improved THEN attemptGens ELSE bestFoundAtGen
            /\ gensSinceImprovement' = since
            /\ totalGensUsed' = totalGensUsed + 1
            /\ attemptGens' = attemptGens + 1
            /\ IF CapReached(bestFit)
               THEN /\ endedBy' = "cap"
                    /\ pc' = "wrap"
                    /\ population' = population
               ELSE IF Stagnated(cfg.StagnationLimit, since, bestFit.CorrectDigits)
               THEN /\ endedBy' = "stagnation"
                    /\ pc' = "wrap"
                    /\ population' = population
               ELSE /\ endedBy' = "none"
                    /\ pc' = "gen"
                    /\ population' \in Evolve(population, fitnesses)
    /\ fitnesses' = NoFitnesses
    /\ results' = NoResults
    /\ evalLog' = NoLog
    /\ UNCHANGED <<cfg, attempt, hallOfFame, tabuSet, globalBest, globalBestFitness,
                   finalReport>>
    /\ UNCHANGED outsideRun

\* Line 111: the inner loop finds the budget used up.
BudgetExit ==
    /\ pc = "gen"
    /\ ~InBudget
    /\ ~unlimited
    /\ endedBy' = "budget"
    /\ pc' = "wrap"
    /\ UNCHANGED <<cfg, attempt, totalGensUsed, population, fitnesses, results, evalLog,
                   bestThisAttempt, bestThisAttemptFitness, gensSinceImprovement,
                   bestFoundAtGen, attemptGens, hallOfFame, tabuSet, globalBest,
                   globalBestFitness, finalReport>>
    /\ UNCHANGED outsideRun

\* Lines 208-290: the attempt's record, the tabu set, the global best.
WrapUp ==
    /\ pc = "wrap"
    /\ LET ar == [Attempt |-> attempt,
                  Generations |-> attemptGens,
                  BestFoundAtGen |-> bestFoundAtGen,
                  BestCandidate |-> IF bestThisAttempt # "nil"
                                    THEN String(bestThisAttempt) ELSE "",
                  BestFitness |-> IF bestThisAttempt # "nil"
                                  THEN bestThisAttemptFitness ELSE ZeroFitness]
           newGlobal == /\ bestThisAttempt # "nil"
                        /\ BetterThanGlobal(bestThisAttemptFitness, globalBestFitness)
           gFit == IF newGlobal THEN bestThisAttemptFitness ELSE globalBestFitness
       IN  /\ hallOfFame' = Append(hallOfFame, ar)
           /\ tabuSet' = IF bestThisAttempt # "nil"
                         THEN tabuSet \cup {String(bestThisAttempt)} ELSE tabuSet
           /\ globalBest' = IF newGlobal THEN bestThisAttempt ELSE globalBest
           /\ globalBestFitness' = gFit
           /\ pc' = IF CapReached(gFit) THEN "report" ELSE "attempt"
    /\ UNCHANGED <<cfg, attempt, totalGensUsed, population, fitnesses, results, evalLog,
                   bestThisAttempt, bestThisAttemptFitness, gensSinceImprovement,
                   bestFoundAtGen, attemptGens, endedBy, finalReport>>
    /\ UNCHANGED outsideRun

\* sortByDigits (output.go): sort.Slice is not stable, so any order that
\* respects the comparison can come out.
Before(x, y) ==
    IF x.BestFitness.CorrectDigits # y.BestFitness.CorrectDigits
    THEN x.BestFitness.CorrectDigits > y.BestFitness.CorrectDigits
    ELSE x.BestFitness.Combined > y.BestFitness.Combined

sortByDigits(attempts) ==
    LET n == Len(attempts)
    IN  {[i \in 1 .. n |-> attempts[p[i]]] :
            p \in {q \in [1 .. n -> 1 .. n] :
                     /\ \A i, j \in 1 .. n : i # j => q[i] # q[j]
                     /\ \A i, j \in 1 .. n :
                          i < j => ~Before(attempts[q[j]], attempts[q[i]])}}

\* dedupAttempts: the first record of each candidate string is kept.
dedupAttempts(attempts) ==
    LET keep == {i \in 1 .. Len(attempts) :
                    \A j \in 1 .. i - 1 :
                        attempts[j].BestCandidate # attempts[i].BestCandidate}
        F[i \in 0 .. Len(attempts)] ==
            IF i = 0 THEN <<>>
            ELSE IF i \in keep THEN Append(F[i - 1], attempts[i]) ELSE F[i - 1]
    IN  F[Len(attempts)]

Truncate(attempts) ==
    IF Len(attempts) > maxHallOfFame THEN SubSeq(attempts, 1, maxHallOfFame) ELSE attempts

\* Lines 293-317: the outer loop is over; the final report is built.
Report ==
    /\ \/ pc = "report"
       \/ pc = "attempt" /\ ~InBudget /\ ~unlimited
    /\ \E sorted \in sortByDigits(hallOfFame) :
          finalReport' = Truncate(dedupAttempts(sorted))
    /\ pc' = "done"
    /\ UNCHANGED <<cfg, attempt, totalGensUsed, population, fitnesses, results, evalLog,
                   bestThisAttempt, bestThisAttemptFitness, gensSinceImprovement,
                   bestFoundAtGen, attemptGens, endedBy, hallOfFame, tabuSet,
                   globalBest, globalBestFitness>>
    /\ UNCHANGED outsideRun

RunNext == StartAttempt \/ Evaluate \/ Select \/ BudgetExit \/ WrapUp \/ Report

\* Evaluate in a run whose precise evaluations all meet their deadline: a
\* candidate is given the same fitness whenever it is evaluated.
EvaluateInTime ==
    /\ Evaluate
    /\ results' = evaluatePopulation(population, tabuSet, cfg.F64PromotionThreshold,
                                     {}).results

RepeatableNext == StartAttempt \/ EvaluateInTime \/ Select \/ BudgetExit \/ WrapUp \/ Report

\* Run has not been called.
RunIdle ==
    /\ cfg = [Generations |-> 0, StagnationLimit |-> 0, F64PromotionThreshold |-> 0]
    /\ pc = "idle"
    /\ attempt = 0
    /\ totalGensUsed = 0
    /\ population = <<>>
    /\ fitnesses = NoFitnesses
    /\ results = NoResults
    /\ evalLog = NoLog
    /\ bestThisAttempt = "nil"
    /\ bestThisAttemptFitness = InitFitness
    /\ gensSinceImprovement = 0
    /\ bestFoundAtGen = 0
    /\ attemptGens = 0
    /\ endedBy = "none"
    /\ hallOfFame = <<>>
    /\ tabuSet = {}
    /\ globalBest = "nil"
    /\ globalBestFitness = InitFitness
    /\ finalReport = <<>>

(***************************************************************************)
(* Engine.evaluatePopulation with its worker goroutines                    *)
(* (pkg/engine/engine.go, lines 324-432), followed by the engine's own     *)
(* steps of the generation.  Evaluations meet their deadlines here.        *)
(***************************************************************************)
Workers == 2
WorkerIds == 1 .. Workers

NoWorker == [pc |-> "none", idx |-> -1]
NoneTook == [i \in Idx |-> {}]
NoneWrote == [a \in {"fitnesses", "results", "promote"} |-> [i \in Idx |-> {}]]

\* a worker that has a goroutine
Running(w) == wkWorkers[w].pc # "none"

\* lines 359-376 and 408-423: one goroutine per worker, wg.Add(1) for each
StartWorkers ==
    /\ wkWorkers' = [w \in WorkerIds |-> [pc |-> "range", idx |-> -1]]
    /\ wkWg' = Workers
    /\ wkJobs' = <<>>
    /\ wkClosed' = FALSE
    /\ wkNext' = 0
    /\ wkTook' = NoneTook
    /\ wkWrote' = NoneWrote

\* lines 325-348: the arrays are allocated and the first phase is started:
\* phase 2 at once when the threshold is off, phase 1 otherwise.
CallEvaluatePopulation ==
    /\ wkEngine = "call"
    /\ wkFit' = NoFitnesses
    /\ wkRes' = NoResults
    /\ wkPromote' = IF wkThreshold <= 0 THEN NilPromote ELSE [i \in Idx |-> FALSE]
    /\ wkPhase' = IF wkThreshold <= 0 THEN 2 ELSE 1
    /\ StartWorkers
    /\ wkEngine' = "send"
    /\ UNCHANGED <<wkThreshold, wkPop, wkTabu, wkBest>>
    /\ UNCHANGED outsideWorkers

\* lines 378-380 and 425-429: the engine puts the job of index wkNext into
\* the channel (its buffer holds the whole population), or passes over it.
Dispatched(i) == wkPhase = 1 \/ DOMAIN wkPromote = {} \/ wkPromote[i]

SendJob ==
    /\ wkEngine = "send"
    /\ wkNext < PopSize
    /\ wkJobs' = IF Dispatched(wkNext) THEN Append(wkJobs, wkNext) ELSE wkJobs
    /\ wkNext' = wkNext + 1
    /\ UNCHANGED <<wkThreshold, wkPop, wkTabu, wkEngine, wkPhase, wkClosed, wkWg,
                   wkWorkers, wkFit, wkRes, wkPromote, wkTook, wkWrote, wkBest>>
    /\ UNCHANGED outsideWorkers

\* lines 381 and 430: close(jobs)
CloseJobs ==
    /\ wkEngine = "send"
    /\ wkNext = PopSize
    /\ wkClosed' = TRUE
    /\ wkEngine' = "wait"
    /\ UNCHANGED <<wkThreshold, wkPop, wkTabu, wkPhase, wkNext, wkJobs, wkWg,
                   wkWorkers, wkFit, wkRes, wkPromote, wkTook, wkWrote, wkBest>>
    /\ UNCHANGED outsideWorkers

\* a Wait that returns while goroutines are still at work
WaitReturns_AtOnce == TRUE

\* lines 382 and 431: wg.Wait() returns when the counter is 0
WaitReturns == wkWg = 0

\* line 382 to 385: after the wait of phase 1 the engine starts phase 2
WaitPhaseOne ==
    /\ wkEngine = "wait"
    /\ wkPhase = 1
    /\ WaitReturns
    /\ wkPhase' = 2
    /\ StartWorkers
    /\ wkEngine' = "send"
    /\ UNCHANGED <<wkThreshold, wkPop, wkTabu, wkFit, wkRes, wkPromote, wkBest>>
    /\ UNCHANGED outsideWorkers

\* line 431 to 339 / 387: after the wait of phase 2 the arrays are returned
WaitPhaseTwo ==
    /\ wkEngine = "wait"
    /\ wkPhase = 2
    /\ WaitReturns
    /\ wkEngine' = "select"
    /\ UNCHANGED <<wkThreshold, wkPop, wkTabu, wkPhase, wkNext, wkJobs, wkClosed, wkWg,
                   wkWorkers, wkFit, wkRes, wkPromote, wkTook, wkWrote, wkBest>>
    /\ UNCHANGED outsideWorkers

\* a receive that leaves the job in the channel
Rest_Keep(jobs) == jobs

\* what a receive leaves in the channel
Rest(jobs) == Tail(jobs)

\* lines 363 and 412: `for j := range jobs` receives a job
Receive(w) ==
    /\ wkWorkers[w].pc = "range"
    /\ wkJobs # <<>>
    /\ wkWorkers' = [wkWorkers EXCEPT ![w] = [pc |-> "job", idx |-> Head(wkJobs)]]
    /\ wkJobs' = Rest(wkJobs)
    /\ wkTook' = [wkTook EXCEPT ![Head(wkJobs)] = @ \cup {w}]
    /\ UNCHANGED <<wkThreshold, wkPop, wkTabu, wkEngine, wkPhase, wkNext, wkClosed, wkWg,
                   wkFit, wkRes, wkPromote, wkWrote, wkBest>>
    /\ UNCHANGED outsideWorkers

\* the element of the arrays a worker writes for its job
Element_OfWorker(w, idx) == (w - 1) % PopSize

\* lines 365, 370, 372, 414, 419, 420: every write goes to index j.idx
Element(w, idx) == idx

\* lines 364-373: the body of a phase-1 worker on its job: it reads the tabu
\* set and the candidate and writes fitnesses[j.idx] and promote[j.idx].
WorkF64(w) ==
    /\ wkPhase = 1
    /\ wkWorkers[w].pc = "job"
    /\ \E i \in {wkWorkers[w].idx} :
       \E e \in {Element(w, i)} :
       \E job \in {F64Job(wkPop, wkTabu, wkThreshold, i)} :
            /\ wkFit' = [wkFit EXCEPT ![e] = job.fitness]
            /\ wkPromote' = IF job.promote THEN [wkPromote EXCEPT ![e] = TRUE]
                            ELSE wkPromote
            /\ wkWrote' = [wkWrote EXCEPT
                             !["fitnesses"][e] = @ \cup {w},
                             !["promote"][e] = IF job.promote THEN @ \cup {w} ELSE @]
    /\ wkWorkers' = [wkWorkers EXCEPT ![w] = [pc |-> "range", idx |-> -1]]
    /\ UNCHANGED <<wkThreshold, wkPop, wkTabu, wkEngine, wkPhase, wkNext, wkJobs,
                   wkClosed, wkWg, wkRes, wkTook, wkBest>>
    /\ UNCHANGED outsideWorkers

\* lines 413-420: the body of a phase-2 worker on its job: it reads the tabu
\* set and the candidate and writes results[j.idx] and fitnesses[j.idx].
WorkBig(w) ==
    /\ wkPhase = 2
    /\ wkWorkers[w].pc = "job"
    /\ \E i \in {wkWorkers[w].idx} :
       \E e \in {Element(w, i)} :
       \E job \in {BigJob(wkPop, wkTabu, {}, i)} :
            /\ wkFit' = [wkFit EXCEPT ![e] = job.fitness]
            /\ wkRes' = IF job.written THEN [wkRes EXCEPT ![e] = job.result] ELSE wkRes
            /\ wkWrote' = [wkWrote EXCEPT
                             !["fitnesses"][e] = @ \cup {w},
                             !["results"][e] = IF job.written THEN @ \cup {w} ELSE @]
    /\ wkWorkers' = [wkWorkers EXCEPT ![w] = [pc |-> "range", idx |-> -1]]
    /\ UNCHANGED <<wkThreshold, wkPop, wkTabu, wkEngine, wkPhase, wkNext, wkJobs,
                   wkClosed, wkWg, wkPromote, wkTook, wkBest>>
    /\ UNCHANGED outsideWorkers

\* lines 362-363 and 411-412: the range loop ends on the closed, drained
\* channel and the deferred wg.Done() runs
WorkerExit(w) ==
    /\ wkWorkers[w].pc = "range"
    /\ wkJobs = <<>>
    /\ wkClosed
    /\ wkWorkers' = [wkWorkers EXCEPT ![w] = NoWorker]
    /\ wkWg' = wkWg - 1
    /\ UNCHANGED <<wkThreshold, wkPop, wkTabu, wkEngine, wkPhase, wkNext, wkJobs,
                   wkClosed, wkFit, wkRes, wkPromote, wkTook, wkWrote, wkBest>>
    /\ UNCHANGED outsideWorkers

\* Run, lines 115-127: the engine reads the returned fitnesses for the best
SelectBest ==
    /\ wkEngine = "select"
    /\ wkBest' = FindBest(wkFit, 0, 0, -1).bestIdx
    /\ wkEngine' = "evolve"
    /\ UNCHANGED <<wkThreshold, wkPop, wkTabu, wkPhase, wkNext, wkJobs, wkClosed, wkWg,
                   wkWorkers, wkFit, wkRes, wkPromote, wkTook, wkWrote>>
    /\ UNCHANGED outsideWorkers

\* Run, line 205: the generation ends with Evolve, which replaces the
\* population; the next generation calls evaluatePopulation again.
EvolvePopulation ==
    /\ wkEngine = "evolve"
    /\ wkPop' \in Evolve(wkPop, wkFit)
    /\ wkEngine' = "call"
    /\ UNCHANGED <<wkThreshold, wkTabu, wkPhase, wkNext, wkJobs, wkClosed, wkWg,
                   wkWorkers, wkFit, wkRes, wkPromote, wkTook, wkWrote, wkBest>>
    /\ UNCHANGED outsideWorkers

\* Run, lines 179-202, 225-232 and 101: the attempt ends instead; its best
\* goes into the tabu set and the next attempt starts on a new population.
EndAttempt ==
    /\ wkEngine = "evolve"
    /\ wkTabu' = wkTabu \cup {String(wkPop[wkBest])}
    /\ wkPop' \in Initialize
    /\ wkEngine' = "call"
    /\ UNCHANGED <<wkThreshold, wkPhase, wkNext, wkJobs, wkClosed, wkWg,
                   wkWorkers, wkFit, wkRes, wkPromote, wkTook, wkWrote, wkBest>>
    /\ UNCHANGED outsideWorkers

WorkersNext ==
    \/ CallEvaluatePopulation
    \/ SendJob
    \/ CloseJobs
    \/ WaitPhaseOne
    \/ WaitPhaseTwo
    \/ \E w \in WorkerIds : Receive(w)
    \/ \E w \in WorkerIds : WorkF64(w)
    \/ \E w \in WorkerIds : WorkBig(w)
    \/ \E w \in WorkerIds : WorkerExit(w)
    \/ SelectBest
    \/ EvolvePopulation
    \/ EndAttempt

\* evaluatePopulation has not been called
WorkersIdle ==
    /\ wkThreshold = 0
    /\ wkPop = <<>>
    /\ wkTabu = {}
    /\ wkEngine = "idle"
    /\ wkPhase = 0
    /\ wkNext = 0
    /\ wkJobs = <<>>
    /\ wkClosed = FALSE
    /\ wkWg = 0
    /\ wkWorkers = [w \in WorkerIds |-> NoWorker]
    /\ wkFit = NoFitnesses
    /\ wkRes = NoResults
    /\ wkPromote = NilPromote
    /\ wkTook = NoneTook
    /\ wkWrote = NoneWrote
    /\ wkBest = 0

\* the first generation of a run: line 101 and the empty tabu set of line 81
WorkersInit ==
    /\ wkThreshold \in {0, PromotionThreshold}
    /\ wkPop \in Initialize
    /\ wkTabu = {}
    /\ wkEngine = "call"
    /\ wkPhase = 0
    /\ wkNext = 0
    /\ wkJobs = <<>>
    /\ wkClosed = FALSE
    /\ wkWg = 0
    /\ wkWorkers = [w \in WorkerIds |-> NoWorker]
    /\ wkFit = NoFitnesses
    /\ wkRes = NoResults
    /\ wkPromote = NilPromote
    /\ wkTook = NoneTook
    /\ wkWrote = NoneWrote
    /\ wkBest = 0

(***************************************************************************)
(* The memo tables of factorial, double factorial and Fibonacci            *)
(* (mathCache, bigFactorial, bigDoubleFactorial, bigFibonacci).  The three *)
(* tables have the same code around their own lock; a state holds one of   *)
(* them, with the seed of 21 entries and the input limit of 1000 scaled    *)
(* down to SeedLen and MemoMaxInput.  The callers are the worker           *)
(* goroutines.                                                             *)
(***************************************************************************)
SeedLen == 3
MemoMaxInput == 5
MemoKinds == {"factorial", "dblFact", "fibonacci"}
MemoArgs == -1 .. MemoMaxInput + 1

\* values[i] of a table held as a sequence
At(values, i) == values[i + 1]

\* an extension that multiplies the last entry where the entry before it is meant
NextEntry_FromLast(kind, values, i) ==
    CASE kind = "factorial" -> At(values, i - 1) * i
      [] kind = "dblFact"   -> IF i < 2 THEN 1 ELSE At(values, i - 1) * i
      [] kind = "fibonacci" -> At(values, i - 1) + At(values, i - 2)

\* lines 217, 241-246, 270: the entry appended at index i
NextEntry(kind, values, i) ==
    CASE kind = "factorial" -> At(values, i - 1) * i
      [] kind = "dblFact"   -> IF i < 2 THEN 1 ELSE At(values, i - 2) * i
      [] kind = "fibonacci" -> At(values, i - 1) + At(values, i - 2)

\* lines 181-184: the product i * (i-2) * ... down to 2
RECURSIVE SeedDoubleFactorial(_)
SeedDoubleFactorial(j) == IF j >= 2 THEN j * SeedDoubleFactorial(j - 2) ELSE 1

\* init(), lines 169-197: the first `len` entries of a table
RECURSIVE SeedTable(_, _)
SeedTable(kind, len) ==
    IF len = 0 THEN <<>>
    ELSE LET before == SeedTable(kind, len - 1)
             i == len - 1
         IN  Append(before,
                    CASE kind = "factorial" -> IF i = 0 THEN 1 ELSE At(before, i - 1) * i
                      [] kind = "dblFact"   -> SeedDoubleFactorial(i)
                      [] kind = "fibonacci" -> IF i < 2 THEN i
                                               ELSE At(before, i - 1) + At(before, i - 2))

NoCall == [pc |-> "idle", n |-> 0, i |-> 0, ok |-> FALSE, v |-> 0]

MemoIdle ==
    /\ mcKind = "none"
    /\ mcValues = <<>>
    /\ mcReaders = {}
    /\ mcWriter = 0
    /\ mcCalls = [p \in WorkerIds |-> NoCall]

MemoInit ==
    /\ mcKind \in MemoKinds
    /\ mcValues = SeedTable(mcKind, SeedLen)
    /\ mcReaders = {}
    /\ mcWriter = 0
    /\ mcCalls = [p \in WorkerIds |-> NoCall]

\* lines 200-203: the call; an argument outside 0..maxComputeInput is
\* refused without touching the table
MemoCall(p) ==
    /\ mcCalls[p].pc \in {"idle", "returned"}
    /\ \E n \in MemoArgs :
         mcCalls' = [mcCalls EXCEPT ![p] =
                        IF n < 0 \/ n > MemoMaxInput
                        THEN [pc |-> "returned", n |-> n, i |-> 0, ok |-> FALSE, v |-> 0]
                        ELSE [pc |-> "get", n |-> n, i |-> 0, ok |-> FALSE, v |-> 0]]
    /\ UNCHANGED <<mcKind, mcValues, mcReaders, mcWriter>>
    /\ UNCHANGED outsideMemo

\* line 161: c.mu.RLock() succeeds while no writer holds the lock
MemoRLock(p) ==
    /\ mcCalls[p].pc = "get"
    /\ mcWriter = 0
    /\ mcReaders' = mcReaders \cup {p}
    /\ mcCalls' = [mcCalls EXCEPT ![p].pc = "reading"]
    /\ UNCHANGED <<mcKind, mcValues, mcWriter>>
    /\ UNCHANGED outsideMemo

\* lines 162-166 and 204-206: the read under the read lock, RUnlock, and
\* the return on a hit
MemoGet(p) ==
    /\ mcCalls[p].pc = "reading"
    /\ mcReaders' = mcReaders \ {p}
    /\ mcCalls' = [mcCalls EXCEPT ![p] =
                     IF @.n < Len(mcValues)
                     THEN [@ EXCEPT !.pc = "returned", !.ok = TRUE, !.v = At(mcValues, mcCalls[p].n)]
                     ELSE [@ EXCEPT !.pc = "lock"]]
    /\ UNCHANGED <<mcKind, mcValues, mcWriter>>
    /\ UNCHANGED outsideMemo

\* line 208: mu.Lock() succeeds while nobody holds the lock
MemoLock(p) ==
    /\ mcCalls[p].pc = "lock"
    /\ mcWriter = 0
    /\ mcReaders = {}
    /\ mcWriter' = p
    /\ mcCalls' = [mcCalls EXCEPT ![p].pc = "recheck"]
    /\ UNCHANGED <<mcKind, mcValues, mcReaders>>
    /\ UNCHANGED outsideMemo

\* lines 210-215: the second look under the write lock
MemoRecheck(p) ==
    /\ mcCalls[p].pc = "recheck"
    /\ IF mcCalls[p].n < Len(mcValues)
       THEN /\ mcCalls' = [mcCalls EXCEPT ![p] =
                             [@ EXCEPT !.pc = "returned", !.ok = TRUE,
                                       !.v = At(mcValues, mcCalls[p].n)]]
            /\ mcWriter' = 0
       ELSE /\ mcCalls' = [mcCalls EXCEPT ![p] =
                             [@ EXCEPT !.pc = "extend", !.i = Len(mcValues)]]
            /\ mcWriter' = mcWriter
    /\ UNCHANGED <<mcKind, mcValues, mcReaders>>
    /\ UNCHANGED outsideMemo

\* lines 216-219: one round of the extension loop appends the entry at i
MemoAppend(p) ==
    /\ mcCalls[p].pc = "extend"
    /\ mcCalls[p].i <= mcCalls[p].n
    /\ mcValues' = Append(mcValues, NextEntry(mcKind, mcValues, mcCalls[p].i))
    /\ mcCalls' = [mcCalls EXCEPT ![p].i = @ + 1]
    /\ UNCHANGED <<mcKind, mcReaders, mcWriter>>
    /\ UNCHANGED outsideMemo

\* lines 220-222: after the loop the entry is read, the lock released
MemoExtended(p) ==
    /\ mcCalls[p].pc = "extend"
    /\ mcCalls[p].i > mcCalls[p].n
    /\ mcCalls' = [mcCalls EXCEPT ![p] =
                     [@ EXCEPT !.pc = "returned", !.ok = TRUE, !.v = At(mcValues, mcCalls[p].n)]]
    /\ mcWriter' = 0
    /\ UNCHANGED <<mcKind, mcValues, mcReaders>>
    /\ UNCHANGED outsideMemo

MemoNext ==
    \E p \in WorkerIds :
        \/ MemoCall(p)
        \/ MemoRLock(p)
        \/ MemoGet(p)
        \/ MemoLock(p)
        \/ MemoRecheck(p)
        \/ MemoAppend(p)
        \/ MemoExtended(p)

(***************************************************************************)
(* Evolve of both strategies, slot by slot: which slot of the next         *)
(* population holds a clone of which candidate of the old one              *)
(* (HillClimbStrategy.Evolve, TournamentStrategy.Evolve).  A candidate of  *)
(* the old population is named by its index.                               *)
(***************************************************************************)
SmallPop == 3
LargePop == 40
FitLevels == 3
EvolvePopSizes == (1 .. SmallPop) \cup {LargePop}

\* fitnesses[i].Combined of populations of n candidates, ties included: a
\* small population has up to FitLevels different values, a large one has
\* each of its values twice
FitnessPatterns(n) ==
    {[i \in 0 .. n - 1 |-> (a * i + b) % m] :
        a \in 1 .. 3, b \in 0 .. 1,
        m \in IF n <= SmallPop THEN 1 .. FitLevels ELSE {n \div 2}}

\* what a slot of the next population holds
CloneOf(i) == [how |-> "clone", of |-> i]
ChildOf(i) == [how |-> "child", of |-> i]
RandomSlot == [how |-> "random", of |-> -1]
OffspringSlot == [how |-> "offspring", of |-> -1]

\* int(float64(n) * rate), at least 1; rate in percent
CountFor(n, ratePct) == IF (n * ratePct) \div 100 < 1 THEN 1 ELSE (n * ratePct) \div 100

Highest(fit, S) == {i \in S : \A j \in S : fit[j] <= fit[i]}
Lowest(fit, S) == {i \in S : \A j \in S : fit[j] >= fit[i]}

\* the first k entries a descending sort.Slice can leave: sort.Slice is not
\* stable, so equal fitnesses come in any order
RECURSIVE TopSeqs(_, _, _)
TopSeqs(fit, S, k) ==
    IF k = 0 \/ S = {} THEN {<<>>}
    ELSE UNION {{<<i>> \o rest : rest \in TopSeqs(fit, S \ {i}, k - 1)} :
                   i \in Highest(fit, S)}

\* the first k entries of an ascending sort.Slice, as a set
RECURSIVE LowSets(_, _, _)
LowSets(fit, S, k) ==
    IF k = 0 \/ S = {} THEN {{}}
    ELSE UNION {{{i} \cup rest : rest \in LowSets(fit, S \ {i}, k - 1)} :
                   i \in Lowest(fit, S)}

\* an Evolve that injects after it has placed the elite
HillClimbSlots_InjectLast(n, fit) ==
    LET all == 0 .. n - 1
        injectionCount == CountFor(n, hillclimbInjectionRate)
    IN  UNION {
            {LET children == [i \in all |-> ChildOf(i)]
                 elite == [children EXCEPT ![bestIdx] = CloneOf(bestIdx)]
             IN  [i \in all |-> IF i \in injected THEN RandomSlot ELSE elite[i]] :
                bestIdx \in {b \in Highest(fit, all) : n <= injectionCount \/ b \notin injected}} :
            injected \in LowSets(fit, all, injectionCount)}

\* HillClimbStrategy.Evolve: the children (lines 244-256), the injection
\* into the slots ranked lowest (271-279), the elite into the slot ranked
\* highest (282-283)
HillClimbSlots(n, fit) ==
    LET all == 0 .. n - 1
        injectionCount == CountFor(n, hillclimbInjectionRate)
    IN  UNION {
            {LET children == [i \in all |-> ChildOf(i)]
                 withInjection == [i \in all |-> IF i \in injected THEN RandomSlot
                                                 ELSE children[i]]
             IN  [withInjection EXCEPT ![bestIdx] = CloneOf(bestIdx)] :
                bestIdx \in {b \in Highest(fit, all) : n <= injectionCount \/ b \notin injected}} :
            injected \in LowSets(fit, all, injectionCount)}

\* TournamentStrategy.Evolve: the elites (lines 117-124), then the slots
\* filled from crossover (126-159)
TournamentSlots(n, fit) ==
    LET all == 0 .. n - 1
        eliteCount == CountFor(n, eliteRate)
    IN  {[i \in all |-> IF i < Len(indices) THEN CloneOf(indices[i + 1]) ELSE OffspringSlot] :
            indices \in TopSeqs(fit, all, eliteCount)}

ElitismIdle ==
    /\ elKind = "none"
    /\ elPc = "idle"
    /\ elN = 0
    /\ elFit = <<>>
    /\ elNext = <<>>

\* Evolve is called on a population of elN candidates with their fitnesses
ElitismInit ==
    /\ elKind \in {"hillclimb", "tournament"}
    /\ elPc = "called"
    /\ elN \in EvolvePopSizes
    /\ elFit \in FitnessPatterns(elN)
    /\ elNext = <<>>

EvolveSlotsHillClimb ==
    /\ elKind = "hillclimb"
    /\ elPc = "called"
    /\ elNext' \in HillClimbSlots(elN, elFit)
    /\ elPc' = "returned"
    /\ UNCHANGED <<elKind, elN, elFit>>
    /\ UNCHANGED outsideElitism

EvolveSlotsTournament ==
    /\ elKind = "tournament"
    /\ elPc = "called"
    /\ elNext' \in TournamentSlots(elN, elFit)
    /\ elPc' = "returned"
    /\ UNCHANGED <<elKind, elN, elFit>>
    /\ UNCHANGED outsideElitism

ElitismNext == EvolveSlotsHillClimb \/ EvolveSlotsTournament

(***************************************************************************)
(* One call of analyzeConvergence (pkg/series/evaluate.go) on recorded     *)
(* checkpoints.  The sums are counted in a unit half the size of the       *)
(* smallest positive float64.                                              *)
(***************************************************************************)
MaxCheckpoints == 4
SumRange == 4

\* the checkpoint lists of up to MaxCheckpoints sums; terms double from 1
RECURSIVE PowerOfTwo(_)
PowerOfTwo(j) == IF j <= 1 THEN 1 ELSE 2 * PowerOfTwo(j - 1)

CheckpointLists ==
    UNION {{[j \in 1 .. k |-> [terms |-> PowerOfTwo(j), sum |-> sums[j]]] :
               sums \in [1 .. k -> 0 .. SumRange]} : k \in 0 .. MaxCheckpoints}

ConvIdle ==
    /\ cvPc = "idle"
    /\ cvCps = <<>>
    /\ cvOut = FALSE

ConvInit ==
    /\ cvPc = "called"
    /\ cvCps \in CheckpointLists
    /\ cvOut = FALSE

\* lines 93-134: the first value analyzeConvergence returns
CallAnalyzeConvergence ==
    /\ cvPc = "called"
    /\ cvOut' = analyzeConvergence(cvCps)
    /\ cvPc' = "returned"
    /\ UNCHANGED cvCps
    /\ UNCHANGED outsideConv

ConvNext == CallAnalyzeConvergence

(***************************************************************************)
(* Constant folding (expr.foldConstants and the negation rule of           *)
(* expr.simplifyOnce).  ConstNode.Val is an int64; the model keeps the     *)
(* two's-complement arithmetic of Go at a width of IntBits bits.           *)
(***************************************************************************)
IntBits == 8
MinInt == 0 - 2 ^ (IntBits - 1)
MaxInt == 2 ^ (IntBits - 1) - 1
Ints == MinInt .. MaxInt

\* the value a Go integer operation leaves in an int64
Wrap(x) == ((x - MinInt) % (2 ^ IntBits)) + MinInt

\* Go's / and % truncate toward zero (b # 0)
TruncQuo(a, b) ==
    IF (a < 0) = (b < 0) THEN Abs(a) \div Abs(b) ELSE 0 - (Abs(a) \div Abs(b))
GoQuo(a, b) == Wrap(TruncQuo(a, b))
GoRem(a, b) == a - b * TruncQuo(a, b)

BinaryOps == {"OpAdd", "OpSub", "OpMul", "OpDiv", "OpPow"}
maxFoldExponent == 20

Folded(val, ok) == [val |-> val, ok |-> ok]

\* "for i := int64(0); i < b; i++ { result *= base }"
RECURSIVE PowLoop(_, _, _, _)
PowLoop(result, base, i, b) ==
    IF i >= b THEN result ELSE PowLoop(Wrap(result * base), base, i + 1, b)

foldConstants(op, a, b) ==
    CASE op = "OpAdd" -> Folded(Wrap(a + b), TRUE)
      [] op = "OpSub" -> Folded(Wrap(a - b), TRUE)
      [] op = "OpMul" ->
            IF a # 0 /\ b # 0
            THEN LET result == Wrap(a * b)
                 IN  IF GoQuo(result, a) # b THEN Folded(0, FALSE)
                     ELSE Folded(result, TRUE)
            ELSE Folded(0, TRUE)
      [] op = "OpDiv" ->
            IF b = 0 THEN Folded(0, FALSE)
            ELSE IF GoRem(a, b) # 0 THEN Folded(0, FALSE)
            ELSE Folded(GoQuo(a, b), TRUE)
      [] op = "OpPow" ->
            IF b < 0 THEN Folded(0, FALSE)
            ELSE IF b > maxFoldExponent THEN Folded(0, FALSE)
            ELSE Folded(PowLoop(1, a, 0, b), TRUE)
      [] OTHER -> Folded(0, FALSE)

\* "-(k) = -k": &ConstNode{Val: -c.Val}
foldNeg(a) == Folded(Wrap(0 - a), TRUE)

\* operands followed through a fold: the ends of the range, the values
\* around zero, and exponents on both sides of maxFoldExponent
NearEnd == 2
FoldOperands ==
    (MinInt .. MinInt + NearEnd) \cup (MaxInt - NearEnd .. MaxInt)
    \cup (0 - 3 .. 3) \cup {10, 12, maxFoldExponent, maxFoldExponent + 1}

FoldIdle ==
    /\ fdPc = "idle"
    /\ fdOp = "OpAdd"
    /\ fdA = 0
    /\ fdB = 0
    /\ fdOut = Folded(0, FALSE)

\* a node whose children are the constants fdA and fdB (fdA alone under a
\* negation) reaches the folding rule
FoldInit ==
    /\ fdPc = "in"
    /\ fdOp \in BinaryOps \cup {"OpNeg"}
    /\ fdA \in FoldOperands
    /\ fdB \in (IF fdOp = "OpNeg" THEN {0} ELSE FoldOperands)
    /\ fdOut = Folded(0, FALSE)

CallFoldConstants ==
    /\ fdPc = "in"
    /\ fdOp \in BinaryOps
    /\ fdOut' = foldConstants(fdOp, fdA, fdB)
    /\ fdPc' = "done"
    /\ UNCHANGED <<fdOp, fdA, fdB>>
    /\ UNCHANGED outsideFold

FoldNegation ==
    /\ fdPc = "in"
    /\ fdOp = "OpNeg"
    /\ fdOut' = foldNeg(fdA)
    /\ fdPc' = "done"
    /\ UNCHANGED <<fdOp, fdA, fdB>>
    /\ UNCHANGED outsideFold

FoldNext == CallFoldConstants \/ FoldNegation

(***************************************************************************)
(* The simplifier on expression trees (expr.Simplify, expr.simplifyOnce,   *)
(* expr.SimplifyBigFloat, expr.foldConstantSubtrees) with the renderer     *)
(* (ExprNode.String) and the big.Float evaluation of a subtree without the *)
(* variable (ExprNode.Eval).  The trees followed are built from the        *)
(* variable, small constants, negation and the five arithmetic operators.  *)
(***************************************************************************)
VarNode == [k |-> "var"]
ConstNode(val) == [k |-> "const", val |-> val]
UnaryNode(op, child) == [k |-> "unary", op |-> op, child |-> child]
BinaryNode(op, left, right) == [k |-> "binary", op |-> op, left |-> left, right |-> right]

binaryOpSymbols(op) ==
    CASE op = "OpAdd" -> "+" [] op = "OpSub" -> "-" [] op = "OpMul" -> "*"
      [] op = "OpDiv" -> "/" [] op = "OpPow" -> "^"

\* ExprNode.String
RECURSIVE StringOf(_)
StringOf(node) ==
    CASE node.k = "var" -> "n"
      [] node.k = "const" -> ToString(node.val)
      [] node.k = "unary" ->
            CASE node.op = "OpNeg" -> "(-" \o StringOf(node.child) \o ")"
              [] node.op = "OpFactorial" -> "(" \o StringOf(node.child) \o ")!"
              [] node.op = "OpAltSign" -> "(-1)^(" \o StringOf(node.child) \o ")"
              [] OTHER -> node.op \o "(" \o StringOf(node.child) \o ")"
      [] node.k = "binary" ->
            IF node.op = "OpPow"
            THEN "(" \o StringOf(node.left) \o ")^(" \o StringOf(node.right) \o ")"
            ELSE "(" \o StringOf(node.left) \o " " \o binaryOpSymbols(node.op)
                     \o " " \o StringOf(node.right) \o ")"

maxFoldFactorial == 20

\* "for i := int64(2); i <= c.Val; i++ { result *= i }"
RECURSIVE FactorialLoop(_, _, _)
FactorialLoop(result, i, val) ==
    IF i > val THEN result ELSE FactorialLoop(Wrap(result * i), i + 1, val)

RECURSIVE simplifyOnce(_)
simplifyOnce(node) ==
    IF node.k \in {"var", "const"} THEN node
    ELSE IF node.k = "unary" THEN
        LET child == simplifyOnce(node.child)
        IN  IF node.op = "OpNeg" /\ child.k = "unary" /\ child.op = "OpNeg"
            THEN child.child
            ELSE IF node.op = "OpNeg" /\ child.k = "const"
            THEN ConstNode(foldNeg(child.val).val)
            ELSE IF /\ node.op = "OpFactorial" /\ child.k = "const"
                    /\ child.val >= 0 /\ child.val <= maxFoldFactorial
            THEN ConstNode(FactorialLoop(1, 2, child.val))
            ELSE IF node.op = "OpAltSign" /\ child.k = "const" /\ child.val >= 0
            THEN ConstNode(IF child.val % 2 = 0 THEN 1 ELSE 0 - 1)
            ELSE UnaryNode(node.op, child)
    ELSE
        LET left == simplifyOnce(node.left)
            right == simplifyOnce(node.right)
            lok == left.k = "const"
            rok == right.k = "const"
            folded == foldConstants(node.op, left.val, right.val)
            rneg == right.k = "unary" /\ right.op = "OpNeg"
            same == StringOf(left) = StringOf(right)
            keep == BinaryNode(node.op, left, right)
        IN  IF lok /\ rok /\ folded.ok THEN ConstNode(folded.val)
            ELSE CASE node.op = "OpAdd" ->
                        IF rok /\ right.val = 0 THEN left
                        ELSE IF lok /\ left.val = 0 THEN right
                        ELSE IF rok /\ right.val < 0
                        THEN simplifyOnce(BinaryNode("OpSub", left,
                                                     ConstNode(foldNeg(right.val).val)))
                        ELSE IF rneg
                        THEN simplifyOnce(BinaryNode("OpSub", left, right.child))
                        ELSE keep
                   [] node.op = "OpSub" ->
                        IF rok /\ right.val = 0 THEN left
                        ELSE IF lok /\ left.val = 0
                        THEN simplifyOnce(UnaryNode("OpNeg", right))
                        ELSE IF rok /\ right.val < 0
                        THEN simplifyOnce(BinaryNode("OpAdd", left,
                                                     ConstNode(foldNeg(right.val).val)))
                        ELSE IF rneg
                        THEN simplifyOnce(BinaryNode("OpAdd", left, right.child))
                        ELSE IF same THEN ConstNode(0)
                        ELSE keep
                   [] node.op = "OpMul" ->
                        IF rok /\ right.val = 0 THEN ConstNode(0)
                        ELSE IF lok /\ left.val = 0 THEN ConstNode(0)
                        ELSE IF rok /\ right.val = 1 THEN left
                        ELSE IF lok /\ left.val = 1 THEN right
                        ELSE IF rok /\ right.val = 0 - 1
                        THEN simplifyOnce(UnaryNode("OpNeg", left))
                        ELSE IF lok /\ left.val = 0 - 1
                        THEN simplifyOnce(UnaryNode("OpNeg", right))
                        ELSE keep
                   [] node.op = "OpDiv" ->
                        IF rok /\ right.val = 1 THEN left
                        ELSE IF lok /\ left.val = 0 THEN ConstNode(0)
                        ELSE IF same THEN ConstNode(1)
                        ELSE keep
                   [] node.op = "OpPow" ->
                        IF rok /\ right.val = 0 THEN ConstNode(1)
                        ELSE IF rok /\ right.val = 1 THEN left
                        ELSE IF lok /\ left.val = 0 THEN ConstNode(0)
                        ELSE IF lok /\ left.val = 1 THEN ConstNode(1)
                        ELSE keep
                   [] OTHER -> keep

simplifyIterations == 20

\* the loop of Simplify from iteration i on
RECURSIVE SimplifyFrom(_, _)
SimplifyFrom(node, i) ==
    IF i >= simplifyIterations THEN node
    ELSE LET next == simplifyOnce(node)
         IN  IF StringOf(next) = StringOf(node) THEN next
             ELSE SimplifyFrom(next, i + 1)

Simplify(node) == SimplifyFrom(node, 0)

RECURSIVE containsVar(_)
containsVar(node) ==
    CASE node.k = "var" -> TRUE
      [] node.k = "const" -> FALSE
      [] node.k = "unary" -> containsVar(node.child)
      [] node.k = "binary" -> containsVar(node.left) \/ containsVar(node.right)

\* A big.Float met while a sampled subtree is evaluated is a quotient of
\* small integers; it is kept as num / den in lowest terms, den > 0.
RECURSIVE GCD(_, _)
GCD(a, b) == IF b = 0 THEN a ELSE GCD(b, a % b)

Val(num, den) ==
    LET g == GCD(Abs(num), Abs(den))
        s == IF den < 0 THEN 0 - 1 ELSE 1
    IN  [ok |-> TRUE, num |-> (s * num) \div g, den |-> (s * den) \div g]
NoVal == [ok |-> FALSE, num |-> 0, den |-> 1]

\* big.Float.Int64: the value truncated toward zero, held to the int64 range
Int64(num, den) ==
    LET t == TruncQuo(num, den)
    IN  IF t < MinInt THEN MinInt ELSE IF t > MaxInt THEN MaxInt ELSE t

\* toInt64: a whole number that Int64 converts exactly
toInt64(f) ==
    IF f.den # 1 THEN Folded(0, FALSE)
    ELSE Folded(Int64(f.num, 1), f.num \in Ints)

toInt64Approx(f) ==
    IF f.den # 1 THEN Folded(0, FALSE)
    ELSE Folded(Int64(f.num, 1), f.num \in Ints)

intPowLimit == 200

\* intPow: square and multiply, the product base^exp
RECURSIVE intPow(_, _)
intPow(base, exp) ==
    IF exp > intPowLimit THEN NoVal
    ELSE IF exp = 0 THEN Val(1, 1)
    ELSE LET rest == intPow(base, exp - 1)
         IN  Val(rest.num * base.num, rest.den * base.den)

\* bigPow with an integer exponent; a fractional exponent goes through
\* math.Pow, which no sampled tree reaches (PowOverLeaves)
bigPow(base, exp) ==
    IF toInt64(exp).ok
    THEN IF exp.num < 0
         THEN IF base.num = 0 THEN NoVal
              ELSE LET pos == intPow(base, 0 - exp.num)
                   IN  IF pos.ok THEN Val(pos.den, pos.num) ELSE NoVal
         ELSE intPow(base, exp.num)
    ELSE NoVal

maxComputeInput == 1000

\* bigFactorial: the factorial of a whole number in 0 .. maxComputeInput
RECURSIVE Factorial(_)
Factorial(iv) == IF iv <= 1 THEN 1 ELSE iv * Factorial(iv - 1)

bigFactorial(f) ==
    LET iv == toInt64(f)
    IN  IF ~iv.ok \/ iv.val < 0 \/ iv.val > maxComputeInput THEN NoVal
        ELSE Val(Factorial(iv.val), 1)

\* ExprNode.Eval at the index n
RECURSIVE EvalAt(_, _)
EvalAt(node, n) ==
    CASE node.k = "var" -> Val(n, 1)
      [] node.k = "const" -> Val(node.val, 1)
      [] node.k = "unary" ->
            LET child == EvalAt(node.child, n)
            IN  IF ~child.ok THEN NoVal
                ELSE CASE node.op = "OpNeg" -> Val(0 - child.num, child.den)
                       [] node.op = "OpFactorial" -> bigFactorial(child)
                       [] node.op = "OpAltSign" ->
                            LET iv == toInt64(child)
                            IN  IF ~iv.ok \/ iv.val < 0 THEN NoVal
                                ELSE IF iv.val % 2 = 0 THEN Val(1, 1)
                                ELSE Val(0 - 1, 1)
                       [] OTHER -> NoVal
      [] node.k = "binary" ->
            LET left == EvalAt(node.left, n)
                right == EvalAt(node.right, n)
            IN  IF ~left.ok THEN NoVal
                ELSE IF ~right.ok THEN NoVal
                ELSE CASE node.op = "OpAdd" ->
                            Val(left.num * right.den + right.num * left.den,
                                left.den * right.den)
                       [] node.op = "OpSub" ->
                            Val(left.num * right.den - right.num * left.den,
                                left.den * right.den)
                       [] node.op = "OpMul" ->
                            Val(left.num * right.num, left.den * right.den)
                       [] node.op = "OpDiv" ->
                            IF right.num = 0 THEN NoVal
                            ELSE Val(left.num * right.den, left.den * right.num)
                       [] node.op = "OpPow" -> bigPow(left, right)
                       [] OTHER -> NoVal

\* a constant subtree is evaluated at n = 0 (evalConst)
Eval(node) == EvalAt(node, 0)

\* roundToInt64: add or subtract one half, truncate, reject 0 and the ends
roundToInt64(f) ==
    LET i == IF f.num >= 0 THEN Int64(2 * f.num + f.den, 2 * f.den)
                           ELSE Int64(2 * f.num - f.den, 2 * f.den)
    IN  IF i = 0 THEN Folded(0, FALSE)
        ELSE IF i = MinInt \/ i = MaxInt THEN Folded(0, FALSE)
        ELSE Folded(i, TRUE)

RECURSIVE foldConstantSubtrees(_)
foldConstantSubtrees(node) ==
    IF ~containsVar(node)
    THEN LET val == Eval(node)
         IN  IF val.ok
             THEN IF toInt64Approx(val).ok THEN ConstNode(toInt64Approx(val).val)
                  ELSE IF roundToInt64(val).ok THEN ConstNode(roundToInt64(val).val)
                  ELSE node
             ELSE node
    ELSE CASE node.k = "unary" ->
                UnaryNode(node.op, foldConstantSubtrees(node.child))
           [] node.k = "binary" ->
                BinaryNode(node.op, foldConstantSubtrees(node.left),
                                    foldConstantSubtrees(node.right))
           [] OTHER -> node

\* SimplifyBigFloat on a tree: Simplify, fold, Simplify
SimplifyBigFloatOf(node) == Simplify(foldConstantSubtrees(Simplify(node)))

\* The trees followed: leaves, two quotients that are not integers, and
\* every tree of one or two operators over them.
MaxLeaf == 2
Leaves == {VarNode} \cup {ConstNode(c) : c \in 0 - 1 .. MaxLeaf}
Quotients == {BinaryNode("OpDiv", ConstNode(1), ConstNode(2)),
              BinaryNode("OpDiv", ConstNode(1), ConstNode(4))}
Atoms == Leaves \cup Quotients
OneOp == {BinaryNode(op, a, b) : op \in BinaryOps, a \in Atoms, b \in Atoms}
           \cup {UnaryNode("OpNeg", a) : a \in Atoms}
TwoOps == {BinaryNode(op, a, t) : op \in BinaryOps, a \in Atoms, t \in OneOp}
            \cup {BinaryNode(op, t, a) : op \in BinaryOps, a \in Atoms, t \in OneOp}
            \cup {UnaryNode("OpNeg", t) : t \in OneOp}

\* every exponent is a leaf
RECURSIVE PowOverLeaves(_)
PowOverLeaves(node) ==
    CASE node.k \in {"var", "const"} -> TRUE
      [] node.k = "unary" -> PowOverLeaves(node.child)
      [] node.k = "binary" ->
            /\ node.op = "OpPow" => node.right \in Leaves
            /\ PowOverLeaves(node.left)
            /\ PowOverLeaves(node.right)

SampleTrees == {t \in Atoms \cup OneOp \cup TwoOps : PowOverLeaves(t)}

SimpIdle ==
    /\ smPc = "idle"
    /\ smPass = "Simplify"
    /\ smNode = VarNode
    /\ smOut = VarNode
    /\ smAgain = VarNode

SimpInit ==
    /\ smPc = "in"
    /\ smPass \in {"Simplify", "SimplifyBigFloat"}
    /\ smNode \in SampleTrees
    /\ smOut = VarNode
    /\ smAgain = VarNode

\* Simplify on the input tree, then on its own output
CallSimplify ==
    /\ smPass = "Simplify"
    /\ \/ /\ smPc = "in"
          /\ smOut' = Simplify(smNode)
          /\ smPc' = "out"
          /\ UNCHANGED smAgain
       \/ /\ smPc = "out"
          /\ smAgain' = Simplify(smOut)
          /\ smPc' = "again"
          /\ UNCHANGED smOut
    /\ UNCHANGED <<smPass, smNode>>
    /\ UNCHANGED outsideSimp

\* SimplifyBigFloat on the input tree, then on its own output
CallSimplifyBigFloat ==
    /\ smPass = "SimplifyBigFloat"
    /\ \/ /\ smPc = "in"
          /\ smOut' = SimplifyBigFloatOf(smNode)
          /\ smPc' = "out"
          /\ UNCHANGED smAgain
       \/ /\ smPc = "out"
          /\ smAgain' = SimplifyBigFloatOf(smOut)
          /\ smPc' = "again"
          /\ UNCHANGED smOut
    /\ UNCHANGED <<smPass, smNode>>
    /\ UNCHANGED outsideSimp

SimpNext == CallSimplify \/ CallSimplifyBigFloat

(***************************************************************************)
(* Candidate.Clone (pkg/series) over ExprNode.Clone (pkg/expr/clone.go),   *)
(* followed by an in-place change of the original or of the copy.  The     *)
(* heap and the trees are those of the crossover model.                    *)
(***************************************************************************)
NoCandidate == [num |-> 0, den |-> 0, start |-> 0]

\* a Clone that copies the numerator and keeps the denominator's pointer
CloneCandidate_SharedDen(h, c) ==
    LET n == CloneTree(h, c.num)
    IN  [h |-> n.h, c |-> [num |-> n.root, den |-> c.den, start |-> c.start]]

\* Candidate.Clone: Numerator.Clone(), Denominator.Clone(), Start
CloneCandidate(h, c) ==
    LET n == CloneTree(h, c.num)
        d == CloneTree(n.h, c.den)
    IN  [h |-> d.h, c |-> [num |-> n.root, den |-> d.root, start |-> c.start]]

\* Candidate.String: the start index and the two trees
StringCand(h, c) == <<c.start, Render(h, c.num, Len(h)), Render(h, c.den, Len(h))>>

\* the node objects of a candidate
NodesOf(h, c) == Reach(h, c.num) \cup Reach(h, c.den)

CloneIdle ==
    /\ clPc = "idle"
    /\ clHeap = <<>>
    /\ clOrig = NoCandidate
    /\ clCopy = NoCandidate
    /\ clSide = "none"
    /\ clBefore = <<>>

CloneInit ==
    /\ clPc = "made"
    /\ \E tn, td \in TreeTemplates, s \in {0, 1} :
          LET t1 == BuildTree(<<>>, tn)
              t2 == BuildTree(t1.h, td)
          IN  /\ clHeap = t2.h
              /\ clOrig = [num |-> t1.root, den |-> t2.root, start |-> s]
    /\ clCopy = NoCandidate
    /\ clSide = "none"
    /\ clBefore = <<>>

CallClone ==
    /\ clPc = "made"
    /\ \E x \in {CloneCandidate(clHeap, clOrig)} :
          /\ clHeap' = x.h
          /\ clCopy' = x.c
    /\ clPc' = "cloned"
    /\ UNCHANGED <<clOrig, clSide, clBefore>>
    /\ UNCHANGED outsideClone

\* pointMutate (n.Op = ...) and constPerturb (target.Val += delta) change a
\* node object of the candidate; pointMutate, subtreeMutate, growMutate and
\* shrinkMutate store a node into a child field of one of its objects.
ChangeNode ==
    /\ clPc = "cloned"
    /\ \E side \in {"original", "copy"} :
       \E c \in {IF side = "original" THEN clOrig ELSE clCopy} :
       \E other \in {IF side = "original" THEN clCopy ELSE clOrig} :
          /\ \E id \in NodesOf(clHeap, c) :
                \/ clHeap' = [clHeap EXCEPT ![id].op = OtherOp(@)]
                \/ \E k \in 1 .. Len(clHeap[id].kids) :
                      LET leaf == Alloc(clHeap, Node("1", <<>>))
                      IN  clHeap' = Store(leaf.h, Slot(id, k), leaf.root)
          /\ clSide' = side
          /\ clBefore' = StringCand(clHeap, other)
    /\ clPc' = "changed"
    /\ UNCHANGED <<clOrig, clCopy>>
    /\ UNCHANGED outsideClone

\* MutateCandidate: c.Start = 1 - c.Start
FlipStart ==
    /\ clPc = "cloned"
    /\ \E side \in {"original", "copy"} :
          /\ clSide' = side
          /\ IF side = "original"
             THEN /\ clOrig' = [clOrig EXCEPT !.start = 1 - @]
                  /\ clBefore' = StringCand(clHeap, clCopy)
                  /\ UNCHANGED clCopy
             ELSE /\ clCopy' = [clCopy EXCEPT !.start = 1 - @]
                  /\ clBefore' = StringCand(clHeap, clOrig)
                  /\ UNCHANGED clOrig
    /\ clPc' = "changed"
    /\ UNCHANGED clHeap
    /\ UNCHANGED outsideClone

CloneNext == CallClone \/ ChangeNode \/ FlipStart

(***************************************************************************)
(* pkg/strategy: subtreeMutate on node objects, with pool.randomTree.  A   *)
(* tree outside the heap is written as its rendering: <<op>> followed by   *)
(* the renderings of the children.                                         *)
(***************************************************************************)
\* randomTree(p, rng, maxDepth): a leaf at depth 1; otherwise a leaf, a unary
\* node or a binary node over trees of maxDepth - 1.  The pool draws the
\* leaf 2 and the operators factorial and multiplication.
RECURSIVE randomTreeOf(_)
randomTreeOf(maxDepth) ==
    IF maxDepth <= 1 THEN {<<"2">>}
    ELSE LET sub == randomTreeOf(maxDepth - 1)
         IN  {<<"2">>} \cup {<<"fact", c>> : c \in sub}
                       \cup {<<"mul", l, r>> : l, r \in sub}

\* the node objects of a new tree: &UnaryNode{...}, &BinaryNode{...}
RECURSIVE BuildShape(_, _)
BuildShape(h, s) ==
    IF Len(s) = 1 THEN Alloc(h, Node(s[1], <<>>))
    ELSE IF Len(s) = 2
    THEN LET c == BuildShape(h, s[2])
         IN  Alloc(c.h, Node(s[1], <<c.root>>))
    ELSE LET l == BuildShape(h, s[2])
             r == BuildShape(l.h, s[3])
         IN  Alloc(r.h, Node(s[1], <<l.root, r.root>>))

\* Depth (complexity.go)
RECURSIVE Depth(_)
Depth(s) ==
    IF Len(s) = 1 THEN 1
    ELSE IF Len(s) = 2 THEN 1 + Depth(s[2])
    ELSE 1 + Max(Depth(s[2]), Depth(s[3]))

\* subtreeMutate with the point idx (from 1) and the random tree fresh
subtreeMutateAt(h, root, idx, fresh) ==
    LET nodes == collectNodes(h, root)
        t == BuildShape(h, fresh)
    IN  IF Len(nodes) = 0 THEN [h |-> t.h, root |-> t.root]
        ELSE [h |-> Store(t.h, nodes[idx], t.root), root |-> root]

NoTree == [h |-> <<>>, root |-> 0]

MutateIdle ==
    /\ muPc = "idle"
    /\ muIn = NoTree
    /\ muIdx = 0
    /\ muFresh = <<>>
    /\ muOut = NoTree

\* the tree given to subtreeMutate
MutateInit ==
    /\ muPc = "in"
    /\ \E t \in TreeTemplates : muIn = BuildTree(<<>>, t)
    /\ muIdx = 0
    /\ muFresh = <<>>
    /\ muOut = NoTree

\* subtreeMutate(root, p, rng): rng.Intn(len(nodes)) draws the point
SubtreeMutate ==
    /\ muPc = "in"
    /\ \E idx \in 1 .. Size(muIn.h, muIn.root), fresh \in randomTreeOf(maxMutationDepth) :
          /\ muIdx' = idx
          /\ muFresh' = fresh
          /\ muOut' = subtreeMutateAt(muIn.h, muIn.root, idx, fresh)
    /\ muPc' = "out"
    /\ UNCHANGED muIn
    /\ UNCHANGED outsideMutate

MutateNext == SubtreeMutate

(***************************************************************************)
(* Engine.Run, lines 114-128: the scan of one generation's fitnesses for   *)
(* the best and the second best, on populations of any size.               *)
(***************************************************************************)
MaxScanPop == 4
ScanLevels == 3

Found(bestIdx, secondIdx) == [bestIdx |-> bestIdx, secondIdx |-> secondIdx]

\* a scan that forgets the old best when a new best is found
ScanStep_NoDemote(fit, i, st) ==
    IF fit[i].Combined > fit[st.bestIdx].Combined
    THEN Found(i, st.secondIdx)
    ELSE IF st.secondIdx = -1 \/ fit[i].Combined > fit[st.secondIdx].Combined
    THEN IF i # st.bestIdx THEN Found(st.bestIdx, i) ELSE st
    ELSE st

\* the body of "for i, f := range fitnesses" (lines 117-127)
ScanStep(fit, i, st) ==
    IF fit[i].Combined > fit[st.bestIdx].Combined
    THEN Found(i, st.bestIdx)
    ELSE IF st.secondIdx = -1 \/ fit[i].Combined > fit[st.secondIdx].Combined
    THEN IF i # st.bestIdx THEN Found(st.bestIdx, i) ELSE st
    ELSE st

\* the loop over the n fitnesses, from "bestIdx, secondIdx := 0, -1"
RECURSIVE ScanFrom(_, _, _, _)
ScanFrom(fit, n, i, st) ==
    IF i >= n THEN st ELSE ScanFrom(fit, n, i + 1, ScanStep(fit, i, st))

ScanIdle ==
    /\ sbPc = "idle"
    /\ sbN = 0
    /\ sbFit = <<>>
    /\ sbOut = Found(0, -1)

\* the fitnesses evaluatePopulation returned for a population of sbN
ScanInit ==
    /\ sbPc = "evaluated"
    /\ sbN \in 1 .. MaxScanPop
    /\ sbFit \in [0 .. sbN - 1 -> [Combined : 0 .. ScanLevels - 1]]
    /\ sbOut = Found(0, -1)

ScanFitnesses ==
    /\ sbPc = "evaluated"
    /\ sbOut' = ScanFrom(sbFit, sbN, 0, Found(0, -1))
    /\ sbPc' = "scanned"
    /\ UNCHANGED <<sbN, sbFit>>
    /\ UNCHANGED outsideScan

ScanNext == ScanFitnesses

(***************************************************************************)
(* EvaluateCandidateF64: the ring buffer of checkpoint sums through any    *)
(* number of checkpoints.  rgList is the history of the sums recorded, in  *)
(* the order they were recorded; the code does not keep it.                *)
(***************************************************************************)
MaxRecorded == 5
MaxRingSum == 3

RingIdle ==
    /\ rgPc = "idle"
    /\ rgRing = <<0, 0, 0>>
    /\ rgIdx = 0
    /\ rgCount = 0
    /\ rgList = <<>>
    /\ rgOut = FALSE

\* "var cpSums [3]float64; cpIdx := 0; cpCount := 0"
RingInit ==
    /\ rgPc = "loop"
    /\ rgRing = <<0, 0, 0>>
    /\ rgIdx = 0
    /\ rgCount = 0
    /\ rgList = <<>>
    /\ rgOut = FALSE

\* lines 178-184: the offset is the next checkpoint and the sum is recorded
RecordCheckpoint ==
    /\ rgPc = "loop"
    /\ rgCount < MaxRecorded
    /\ \E sum \in 0 .. MaxRingSum :
          /\ rgRing' = [rgRing EXCEPT ![(rgIdx % 3) + 1] = sum]
          /\ rgList' = Append(rgList, sum)
    /\ rgIdx' = rgIdx + 1
    /\ rgCount' = rgCount + 1
    /\ UNCHANGED <<rgPc, rgOut>>
    /\ UNCHANGED outsideRing

\* line 194: the loop has ended and the ring is analyzed
AnalyzeRing ==
    /\ rgPc = "loop"
    /\ rgOut' = analyzeConvergenceF64(rgRing, rgCount)
    /\ rgPc' = "analyzed"
    /\ UNCHANGED <<rgRing, rgIdx, rgCount, rgList>>
    /\ UNCHANGED outsideRing

RingNext == RecordCheckpoint \/ AnalyzeRing

(***************************************************************************)
(* Simplify followed by Eval: the tree and its simplified form evaluated   *)
(* at the same index n.                                                    *)
(***************************************************************************)
MaxIndex == 2

\* The trees followed: the leaves, every tree of one operator over them,
\* and every tree of one operator over those; a factorial is taken of a
\* leaf and an exponent is a leaf.
UnaryOps == {"OpNeg", "OpFactorial", "OpAltSign"}
LeafOps == {BinaryNode(op, a, b) : op \in BinaryOps, a \in Leaves, b \in Leaves}
               \cup {UnaryNode(op, a) : op \in UnaryOps, a \in Leaves}
NestedOps == {BinaryNode(op, a, t) : op \in BinaryOps \ {"OpPow"}, a \in Leaves, t \in LeafOps}
                 \cup {BinaryNode(op, t, a) : op \in BinaryOps, a \in Leaves, t \in LeafOps}
                 \cup {UnaryNode(op, t) : op \in {"OpNeg", "OpAltSign"}, t \in LeafOps}
EquivTrees == Leaves \cup LeafOps \cup NestedOps

EquivIdle ==
    /\ eqPc = "idle"
    /\ eqNode = VarNode
    /\ eqN = 0
    /\ eqOut = VarNode
    /\ eqBefore = NoVal
    /\ eqAfter = NoVal

EquivInit ==
    /\ eqPc = "in"
    /\ eqNode \in EquivTrees
    /\ eqN \in 0 .. MaxIndex
    /\ eqOut = VarNode
    /\ eqBefore = NoVal
    /\ eqAfter = NoVal

\* Simplify(node)
SimplifyTree ==
    /\ eqPc = "in"
    /\ eqOut' = Simplify(eqNode)
    /\ eqPc' = "simplified"
    /\ UNCHANGED <<eqNode, eqN, eqBefore, eqAfter>>
    /\ UNCHANGED outsideEquiv

\* node.Eval(n, prec) on the tree given and on the tree returned
EvalBoth ==
    /\ eqPc = "simplified"
    /\ eqBefore' = EvalAt(eqNode, eqN)
    /\ eqAfter' = EvalAt(eqOut, eqN)
    /\ eqPc' = "evaluated"
    /\ UNCHANGED <<eqNode, eqN, eqOut>>
    /\ UNCHANGED outsideEquiv

EquivNext == SimplifyTree \/ EvalBoth

(***************************************************************************)
(* Specifications                                                          *)
(***************************************************************************)
\* A run of the engine.
Init == RunInit /\ FitIdle /\ EvalIdle /\ StratIdle /\ XoIdle /\ WorkersIdle /\ MemoIdle /\ ElitismIdle /\ ConvIdle /\ FoldIdle /\ SimpIdle /\ CloneIdle /\ MutateIdle /\ ScanIdle /\ RingIdle /\ EquivIdle
Next == RunNext
Spec == Init /\ [][Next]_vars

\* Run is one sequential thread: it takes its next step whenever it has one.
LiveSpec == Init /\ [][Next]_vars /\ WF_vars(Next)

\* Run without a timeout of EvaluateCandidate.
RepeatableSpec == Init /\ [][RepeatableNext]_vars

\* One call of a fitness function on arguments of its domain.
FitSpecInit == FitInit /\ RunIdle /\ EvalIdle /\ StratIdle /\ XoIdle /\ WorkersIdle /\ MemoIdle /\ ElitismIdle /\ ConvIdle /\ FoldIdle /\ SimpIdle /\ CloneIdle /\ MutateIdle /\ ScanIdle /\ RingIdle /\ EquivIdle
FitSpec == FitSpecInit /\ [][FitNext]_vars

\* One call of an evaluator on a candidate.
EvalSpecInit == EvalInit /\ RunIdle /\ FitIdle /\ StratIdle /\ XoIdle /\ WorkersIdle /\ MemoIdle /\ ElitismIdle /\ ConvIdle /\ FoldIdle /\ SimpIdle /\ CloneIdle /\ MutateIdle /\ ScanIdle /\ RingIdle /\ EquivIdle
EvalSpec == EvalSpecInit /\ [][EvalNext]_vars

\* A strategy: Initialize, then any number of Evolve and Initialize calls.
StratSpecInit == StratInit /\ RunIdle /\ FitIdle /\ EvalIdle /\ XoIdle /\ WorkersIdle /\ MemoIdle /\ ElitismIdle /\ ConvIdle /\ FoldIdle /\ SimpIdle /\ CloneIdle /\ MutateIdle /\ ScanIdle /\ RingIdle /\ EquivIdle
StratSpec == StratSpecInit /\ [][StratNext]_vars

\* One crossover of two parents, followed by a mutation of the first child.
XoSpecInit == XoInit /\ RunIdle /\ FitIdle /\ EvalIdle /\ StratIdle /\ WorkersIdle /\ MemoIdle /\ ElitismIdle /\ ConvIdle /\ FoldIdle /\ SimpIdle /\ CloneIdle /\ MutateIdle /\ ScanIdle /\ RingIdle /\ EquivIdle
XoSpec == XoSpecInit /\ [][XoNext]_vars

\* The generations of a run, each with its workers: the engine thread and
\* the goroutines interleave freely.
WorkSpecInit == WorkersInit /\ RunIdle /\ FitIdle /\ EvalIdle /\ StratIdle /\ XoIdle /\ MemoIdle /\ ElitismIdle /\ ConvIdle /\ FoldIdle /\ SimpIdle /\ CloneIdle /\ MutateIdle /\ ScanIdle /\ RingIdle /\ EquivIdle
WorkSpec == WorkSpecInit /\ [][WorkersNext]_vars

\* Calls of one of the three memoized functions from the worker goroutines.
MemoSpecInit == MemoInit /\ RunIdle /\ FitIdle /\ EvalIdle /\ StratIdle /\ XoIdle /\ WorkersIdle /\ ElitismIdle /\ ConvIdle /\ FoldIdle /\ SimpIdle /\ CloneIdle /\ MutateIdle /\ ScanIdle /\ RingIdle /\ EquivIdle
MemoSpec == MemoSpecInit /\ [][MemoNext]_vars

\* One call of Evolve of either strategy.
ElitSpecInit == ElitismInit /\ RunIdle /\ FitIdle /\ EvalIdle /\ StratIdle /\ XoIdle /\ WorkersIdle /\ MemoIdle /\ ConvIdle /\ FoldIdle /\ SimpIdle /\ CloneIdle /\ MutateIdle /\ ScanIdle /\ RingIdle /\ EquivIdle
ElitSpec == ElitSpecInit /\ [][ElitismNext]_vars

\* One call of analyzeConvergence on a list of checkpoints.
ConvSpecInit == ConvInit /\ RunIdle /\ FitIdle /\ EvalIdle /\ StratIdle /\ XoIdle /\ WorkersIdle /\ MemoIdle /\ ElitismIdle /\ FoldIdle /\ SimpIdle /\ CloneIdle /\ MutateIdle /\ ScanIdle /\ RingIdle /\ EquivIdle
ConvSpec == ConvSpecInit /\ [][ConvNext]_vars

\* one constant fold
FoldSpecInit == FoldInit /\ RunIdle /\ FitIdle /\ EvalIdle /\ StratIdle /\ XoIdle /\ WorkersIdle /\ MemoIdle /\ ElitismIdle /\ ConvIdle /\ SimpIdle /\ CloneIdle /\ MutateIdle /\ ScanIdle /\ RingIdle /\ EquivIdle
FoldSpec == FoldSpecInit /\ [][FoldNext]_vars

\* the simplifier applied to a tree and to its own output
SimpSpecInit == SimpInit /\ RunIdle /\ FitIdle /\ EvalIdle /\ StratIdle /\ XoIdle /\ WorkersIdle /\ MemoIdle /\ ElitismIdle /\ ConvIdle /\ FoldIdle /\ CloneIdle /\ MutateIdle /\ ScanIdle /\ RingIdle /\ EquivIdle
SimpSpec == SimpSpecInit /\ [][SimpNext]_vars

CloneSpecInit == CloneInit /\ RunIdle /\ FitIdle /\ EvalIdle /\ StratIdle /\ XoIdle /\ WorkersIdle /\ MemoIdle /\ ElitismIdle /\ ConvIdle /\ FoldIdle /\ SimpIdle /\ MutateIdle /\ ScanIdle /\ RingIdle /\ EquivIdle
CloneSpec == CloneSpecInit /\ [][CloneNext]_vars

MutateSpecInit == MutateInit /\ RunIdle /\ FitIdle /\ EvalIdle /\ StratIdle /\ XoIdle /\ WorkersIdle /\ MemoIdle /\ ElitismIdle /\ ConvIdle /\ FoldIdle /\ SimpIdle /\ CloneIdle /\ ScanIdle /\ RingIdle /\ EquivIdle
MutateSpec == MutateSpecInit /\ [][MutateNext]_vars

ScanSpecInit == ScanInit /\ RunIdle /\ FitIdle /\ EvalIdle /\ StratIdle /\ XoIdle /\ WorkersIdle /\ MemoIdle /\ ElitismIdle /\ ConvIdle /\ FoldIdle /\ SimpIdle /\ CloneIdle /\ MutateIdle /\ RingIdle /\ EquivIdle
ScanSpec == ScanSpecInit /\ [][ScanNext]_vars

RingSpecInit == RingInit /\ RunIdle /\ FitIdle /\ EvalIdle /\ StratIdle /\ XoIdle /\ WorkersIdle /\ MemoIdle /\ ElitismIdle /\ ConvIdle /\ FoldIdle /\ SimpIdle /\ CloneIdle /\ MutateIdle /\ ScanIdle /\ EquivIdle
RingSpec == RingSpecInit /\ [][RingNext]_vars

EquivSpecInit == EquivInit /\ RunIdle /\ FitIdle /\ EvalIdle /\ StratIdle /\ XoIdle /\ WorkersIdle /\ MemoIdle /\ ElitismIdle /\ ConvIdle /\ FoldIdle /\ SimpIdle /\ CloneIdle /\ MutateIdle /\ ScanIdle /\ RingIdle
EquivSpec == EquivSpecInit /\ [][EquivNext]_vars

(***************************************************************************)
(* Properties of Engine.Run                                                *)
(***************************************************************************)
RECURSIVE SumGens(_)
SumGens(attempts) ==
    IF attempts = <<>> THEN 0
    ELSE attempts[1].Generations + SumGens(Tail(attempts))

AttemptOpen == pc \in {"gen", "select", "wrap"}

\* C1: with a positive budget G, the generations of the recorded attempts plus
\* those of the attempt in progress never exceed G, and neither does the sum
\* over the attempts of the final report.
C1_BudgetRespected ==
    cfg.Generations > 0 =>
        /\ SumGens(hallOfFame) + (IF AttemptOpen THEN attemptGens ELSE 0) <= cfg.Generations
        /\ SumGens(finalReport) <= cfg.Generations

C1_Witness ==
    /\ pc = "done"
    /\ cfg.Generations > 0
    /\ Len(finalReport) >= 2
    /\ SumGens(finalReport) = cfg.Generations

SomeBestAtCap ==
    \E k \in 1 .. Len(hallOfFame) : hallOfFame[k].BestFitness.CorrectDigits >= 10 * MaxDigits

\* C2: with a positive budget Run eventually returns, having used at most G
\* generations, and whenever it has returned the budget is used up or some
\* attempt's best has reached the digit cap.
C2_RunTerminates ==
    /\ <>(cfg.Generations > 0 => pc = "done")
    /\ [](cfg.Generations > 0 => totalGensUsed <= cfg.Generations)
    /\ [](pc = "done" => (~unlimited /\ totalGensUsed >= cfg.Generations) \/ SomeBestAtCap)

C2_Witness ==
    /\ pc = "done"
    /\ cfg.Generations > 0
    /\ totalGensUsed < cfg.Generations
    /\ CapReached(globalBestFitness)

\* C3: in the arrays an evaluation returns, a candidate whose canonical string
\* is in the tabu set has the worst-fitness sentinel and was run through
\* neither evaluator, in single-phase and in two-phase mode.
C3_TabuIsWorst ==
    pc = "select" =>
        \A i \in Idx :
            String(population[i]) \in tabuSet =>
                /\ fitnesses[i] = WorstFitness
                /\ evalLog[i] = {}
                /\ results[i] = ZeroResult

C3_Witness ==
    /\ pc = "select"
    /\ cfg.F64PromotionThreshold > 0
    /\ attempt >= 2
    /\ \E i \in Idx : /\ String(population[i]) \in tabuSet
                      /\ CapReached(ComputeFitness(CandShape(population[i]),
                                        EvaluateCandidateOf(population[i], FALSE), FALSE))

\* the claim's patience: max(20, floor(base * min(1, D/10))), D in tenths
Patience(base, digits) ==
    Max(20, (base * (IF digits >= 100 THEN 100 ELSE digits)) \div 100)

StagnationDue ==
    /\ cfg.StagnationLimit > 0
    /\ gensSinceImprovement >= Patience(cfg.StagnationLimit,
                                        bestThisAttemptFitness.CorrectDigits)

\* C5: after each generation the attempt is ended for stagnation if and only
\* if the base limit is positive and the generations since the attempt's best
\* last improved have reached max(20, floor(base * min(1, D_best/10))).
C5_StagnationExit ==
    (pc \in {"gen", "wrap"} /\ attemptGens > 0) =>
        ((endedBy = "stagnation") <=> StagnationDue)

C5_Witness ==
    /\ pc = "wrap"
    /\ endedBy = "stagnation"
    /\ gensSinceImprovement > MinPatience
    /\ bestThisAttemptFitness.CorrectDigits >= 100

Recorded == {k \in 1 .. Len(hallOfFame) : hallOfFame[k].BestCandidate # ""}

FastFitness(c) == ComputeFitnessF64(CandShape(c), EvaluateCandidateF64Of(c), FALSE)

PreciseValues(c, fit, res) ==
    \E timedOut \in BOOLEAN :
        /\ res = EvaluateCandidateOf(c, timedOut)
        /\ fit = ComputeFitness(CandShape(c), res, FALSE)

C7_Promotion ==
    pc = "select" =>
        \A i \in Idx :
            LET c == population[i]
                tabu == String(c) \in tabuSet
                T == cfg.F64PromotionThreshold
            IN  /\ T > 0 =>
                    /\ ("big" \in evalLog[i]) <=>
                            (~tabu /\ FastFitness(c).CorrectDigits >= T)
                    /\ ("f64" \in evalLog[i]) <=> ~tabu
                    /\ "big" \in evalLog[i] => PreciseValues(c, fitnesses[i], results[i])
                    /\ (~tabu /\ "big" \notin evalLog[i]) =>
                            fitnesses[i] = FastFitness(c) /\ results[i] = ZeroResult
                /\ T <= 0 =>
                    /\ "f64" \notin evalLog[i]
                    /\ ("big" \in evalLog[i]) <=> ~tabu
                    /\ "big" \in evalLog[i] => PreciseValues(c, fitnesses[i], results[i])

\* a generation in which one candidate was promoted at exactly the threshold
\* and another stayed on its fast-path fitness
C7_Witness ==
    /\ pc = "select"
    /\ cfg.F64PromotionThreshold > 0
    /\ \E i, j \in Idx :
          /\ evalLog[i] = {"f64", "big"}
          /\ FastFitness(population[i]).CorrectDigits = cfg.F64PromotionThreshold
          /\ evalLog[j] = {"f64"}
          /\ fitnesses[j].Combined > WorstCombined

(***************************************************************************)
(* Properties of the fitness functions                                     *)
(***************************************************************************)
\* the five degenerate conditions, on the arguments of the call
Degenerate ==
    \/ ~fitResult.OK
    \/ ~fitCand.numVar /\ ~fitCand.denVar
    \/ ~fitCand.denVar
    \/ ~fitResult.Converged
    \/ fitResult.PartialSum.k \in {"inf", "nan"}
    \/ fitResult.PartialSum.k = "fin" /\ fitResult.PartialSum.e > 500

\* C4: ComputeFitness and ComputeFitnessF64 return the worst-fitness sentinel
\* whenever the result is not OK, neither tree mentions n, the denominator
\* does not mention n, the result is not converged, or the partial sum is
\* non-finite or off the target by more than 1e50.
C4_DegenerateIsWorst ==
    (fitPc \in {"big", "f64"} /\ Degenerate) => fitOut = WorstFitness

\* a sound, converged result whose only defect is an error just above 1e50,
\* on either path
C4_Witness ==
    /\ fitPc \in {"big", "f64"}
    /\ fitResult.OK /\ fitResult.Converged /\ fitCand.denVar
    /\ fitResult.PartialSum = Sum("fin", 501)
    /\ fitOut = WorstFitness

(***************************************************************************)
(* Properties of the evaluators                                            *)
(***************************************************************************)
RECURSIVE SumOfTerms(_)
SumOfTerms(seen) ==
    IF seen = <<>> THEN 0 ELSE seen[1].v + SumOfTerms(Tail(seen))

\* the loop was left because the term at the last index seen failed
StoppedByFailure == evSeen # <<>> /\ evSeen[Len(evSeen)] \in FailOutcomes

\* the candidate shapes a fitness can be asked for
AllShapes == [numVar : BOOLEAN, denVar : BOOLEAN, complexity : ComplexitySamples]

\* C8: when the numerator or the denominator fails at index i, or the
\* denominator is zero there, the loop stops at i; without a timeout the
\* result is OK, with the sum and the count of the terms before i, if and only
\* if these are at least 4, and invalid otherwise.  A denominator that is zero
\* at the first index gives an invalid result and the worst fitness.
C8_FailureStopsLoop ==
    /\ (evPc \in {"after", "returned"} /\ StoppedByFailure) =>
            /\ evI = evStart + Len(evSeen) - 1
            /\ evTermsComputed = Len(evSeen) - 1
            /\ evSum = SumOfTerms(SubSeq(evSeen, 1, Len(evSeen) - 1))
    /\ (evPc = "returned" /\ StoppedByFailure /\ ~evTimedOut) =>
            /\ evOut.OK <=> Len(evSeen) - 1 >= 4
            /\ evOut.OK => /\ evOut.PartialSum = Sum("val", evSum)
                           /\ evOut.TermsComputed = Len(evSeen) - 1
            /\ ~evOut.OK => evOut \in {InvalidResult, InvalidResultF64}
    /\ (evPc = "returned" /\ evSeen # <<>> /\ evSeen[1].k = "denZero") =>
            /\ ~evOut.OK
            /\ \A c \in AllShapes :
                  /\ ComputeFitness(c, evOut, FALSE) = WorstFitness
                  /\ ComputeFitnessF64(c, evOut, FALSE) = WorstFitness

\* a zero denominator right after the fourth term: the sum of four terms is kept
C8_Witness ==
    /\ evPc = "returned"
    /\ Len(evSeen) = 5
    /\ evSeen[5].k = "denZero"
    /\ evOut.OK
    /\ evOut.PartialSum.e > 0

(***************************************************************************)
(* Properties of the strategies                                            *)
(***************************************************************************)
Returned == stPc \in {"Initialize", "Evolve"}

\* C9: every candidate of a population returned by Initialize or Evolve has
\* at most 25 nodes in its two trees together and no tree deeper than 10.
C9_AdmissionInvariant ==
    Returned =>
        \A i \in StIdx : /\ stPop[i].num.nodes + stPop[i].den.nodes <= 25
                         /\ stPop[i].num.depth <= 10
                         /\ stPop[i].den.depth <= 10

\* C9, as it holds: a candidate that came through the admission filter has at
\* most 25 nodes and no tree deeper than 10; a fresh random candidate, or the
\* clone of one, has no tree deeper than 4 and at most 30 nodes.
C9_AdmissionOrRandom ==
    Returned =>
        \A i \in StIdx :
            /\ stPop[i].origin \in {"filtered", "random"}
            /\ stPop[i].origin = "filtered" =>
                    /\ stPop[i].num.nodes + stPop[i].den.nodes <= 25
                    /\ stPop[i].num.depth <= 10
                    /\ stPop[i].den.depth <= 10
            /\ stPop[i].origin = "random" =>
                    /\ stPop[i].num.nodes + stPop[i].den.nodes <= 30
                    /\ stPop[i].num.depth <= 4
                    /\ stPop[i].den.depth <= 4

\* Evolve returned an offspring right at the node limit next to a random
\* candidate above it
C9_Witness ==
    /\ stPc = "Evolve"
    /\ \E i, j \in StIdx :
          /\ stPop[i].origin = "filtered"
          /\ stPop[i].num.nodes + stPop[i].den.nodes = 25
          /\ stPop[j].origin = "random"
          /\ stPop[j].num.nodes + stPop[j].den.nodes = 30

(***************************************************************************)
(* Properties of crossover                                                 *)
(***************************************************************************)
ChildRoots ==
    {xoChildren.c1.num, xoChildren.c1.den, xoChildren.c2.num, xoChildren.c2.den}
ParentRoots ==
    {xoParents.a.num, xoParents.a.den, xoParents.b.num, xoParents.b.den}

\* slots of nodes under r that hold node id
Holders(h, r, id) ==
    {s \in {Slot(i, k) : i \in Reach(h, r), k \in 1 .. 2} :
        s.field <= Len(h[s.node].kids) /\ h[s.node].kids[s.field] = id}

\* every node under r is held by one slot, the root by none: no cycle and no
\* node on two paths
WhollyOwned(h, r) ==
    /\ Holders(h, r, r) = {}
    /\ \A id \in Reach(h, r) \ {r} : Cardinality(Holders(h, r, id)) = 1

\* C10: after CrossoverCandidates, whatever the crossover points, the four
\* child trees are acyclic, no node object is reachable from two of them, by
\* two paths of one of them, or from a child and a parent, and an in-place
\* mutation of the first child leaves the second as it was.
C10_ChildrenWhollyOwned ==
    /\ xoPc \in {"crossed", "mutated"} =>
          /\ \A r \in ChildRoots : WhollyOwned(xoHeap, r)
          /\ \A r1, r2 \in ChildRoots :
                r1 # r2 => Reach(xoHeap, r1) \cap Reach(xoHeap, r2) = {}
          /\ Cardinality(ChildRoots) = 4
          /\ \A r \in ChildRoots, q \in ParentRoots :
                Reach(xoHeap, r) \cap Reach(xoHeap, q) = {}
    /\ xoPc = "mutated" => RenderCand(xoHeap, xoChildren.c2) = xoBefore

(***************************************************************************)
(* Properties of evaluatePopulation and its workers                        *)
(***************************************************************************)
Arrays == {"fitnesses", "results", "promote"}

\* the workers of the current phase have all returned
PhaseDone == wkEngine \in {"wait", "select", "evolve"} /\ wkWg = 0

\* C11: within a phase of an evaluation no index is received by two workers,
\* no element of fitnesses, results or promote is written by two workers, an
\* element is written only by the worker that received its index, and once
\* the workers of the phase are done every dispatched index has been
\* received by exactly one worker and no other index by any.
C11_DisjointIndices ==
    /\ \A i \in Idx : Cardinality(wkTook[i]) <= 1
    /\ \A a \in Arrays : \A i \in Idx :
            /\ Cardinality(wkWrote[a][i]) <= 1
            /\ wkWrote[a][i] \subseteq wkTook[i]
    /\ PhaseDone =>
            \A i \in Idx : Cardinality(wkTook[i]) = IF Dispatched(i) THEN 1 ELSE 0

\* Phase 2 of a two-phase evaluation is done; two workers have shared its
\* jobs and an index that was not promoted was left out.
C11_Witness ==
    /\ PhaseDone
    /\ wkPhase = 2
    /\ wkThreshold > 0
    /\ \E i, j \in Idx : /\ wkTook[i] # {} /\ wkTook[j] # {}
                         /\ wkTook[i] # wkTook[j]
                         /\ wkWrote["results"][i] = wkTook[i]

\* C12: the engine passes a wait (to start phase 2 or to return the arrays),
\* selects the best, evolves the population and writes the tabu set only in
\* states where no worker goroutine exists, so none is reading the tabu set
\* or a candidate.
C12_EngineActsAlone ==
    [][(WaitPhaseOne \/ WaitPhaseTwo \/ SelectBest \/ EvolvePopulation \/ EndAttempt)
            => \A w \in WorkerIds : ~Running(w)]_vars

\* The tabu set has been written after a generation in which both phases
\* ran, and a phase-1 worker of a later generation holds a job whose
\* candidate is in it.
C12_Witness ==
    /\ wkTabu # {}
    /\ wkThreshold > 0
    /\ wkPhase = 1
    /\ \E w \in WorkerIds : wkWorkers[w].pc = "job" /\ String(wkPop[wkWorkers[w].idx]) \in wkTabu

\* C14: with every evaluation meeting its deadline, the arrays that
\* evaluatePopulation returns are those of the sequential evaluation of the
\* population under the tabu set and the threshold, and the best of the
\* generation is the best of those arrays, whatever the workers' interleaving.
C14_Deterministic ==
    wkEngine \in {"select", "evolve"} =>
        LET ev == evaluatePopulation(wkPop, wkTabu, wkThreshold, {})
        IN  /\ wkFit = ev.fitnesses
            /\ wkRes = ev.results
            /\ wkEngine = "evolve" => wkBest = FindBest(ev.fitnesses, 0, 0, -1).bestIdx

\* A two-phase evaluation has returned with a tabu candidate, a promoted
\* candidate and one that was not promoted; the jobs of phase 1 were taken
\* in one of several possible assignments to workers.
C14_Witness ==
    /\ wkEngine = "select"
    /\ wkThreshold > 0
    /\ \E i, j \in Idx : wkPromote[i] /\ ~wkPromote[j]
    /\ \E i \in Idx : String(wkPop[i]) \in wkTabu
    /\ \E i \in Idx : wkWrote["results"][i] = {2}

(***************************************************************************)
(* Properties of the memo tables                                           *)
(***************************************************************************)
\* i!, i!! and Fib(i)
RECURSIVE ExactValue(_, _)
ExactValue(kind, i) ==
    CASE kind = "factorial" -> IF i = 0 THEN 1 ELSE i * ExactValue(kind, i - 1)
      [] kind = "dblFact"   -> IF i < 2 THEN 1 ELSE i * ExactValue(kind, i - 2)
      [] kind = "fibonacci" -> IF i < 2 THEN i
                               ELSE ExactValue(kind, i - 1) + ExactValue(kind, i - 2)

CorrectPrefix ==
    \A i \in 0 .. Len(mcValues) - 1 : At(mcValues, i) = ExactValue(mcKind, i)

CorrectReturns ==
    \A p \in WorkerIds :
        mcCalls[p].pc = "returned" =>
            /\ mcCalls[p].ok <=> mcCalls[p].n \in 0 .. MemoMaxInput
            /\ mcCalls[p].ok => mcCalls[p].v = ExactValue(mcKind, mcCalls[p].n)

\* C13: under every interleaving of the callers, the table always holds
\* i!, i!! or Fib(i) at every index below its length, no caller reads while
\* another extends, every call with an argument in 0..MemoMaxInput returns
\* the correct value and every other call is refused, and no step shortens
\* the table or changes an entry it holds.
C13_MemoPrefix ==
    /\ [](CorrectPrefix /\ CorrectReturns /\ (mcWriter # 0 => mcReaders = {}))
    /\ [][/\ Len(mcValues') >= Len(mcValues)
          /\ SubSeq(mcValues', 1, Len(mcValues)) = mcValues]_vars

\* One caller has extended the table to the largest argument and returned;
\* another, whose read missed before that, now holds the write lock and
\* finds its entry at the second look.
C13_Witness ==
    \E p, q \in WorkerIds :
        /\ mcCalls[p].pc = "returned" /\ mcCalls[p].ok /\ mcCalls[p].n = MemoMaxInput
        /\ mcCalls[q].pc = "recheck"
        /\ mcCalls[q].n >= SeedLen
        /\ mcCalls[q].n < Len(mcValues)

(***************************************************************************)
(* Properties of Evolve, slot by slot                                      *)
(***************************************************************************)
\* max(1, floor(0.05 * n))
EliteSlots(n) == IF n \div 20 < 1 THEN 1 ELSE n \div 20

\* C15: after Evolve the next population holds a clone of a candidate of
\* maximum combined fitness of the old population; hill-climb has it in the
\* slot of that candidate, also when the slot was drawn for injection;
\* tournament has clones of different candidates in its first
\* max(1, floor(0.05 * n)) slots, none of them less fit than a candidate
\* that is not cloned there.
C15_Elitism ==
    elPc = "returned" =>
        LET all == 0 .. elN - 1
            best == {i \in all : \A j \in all : elFit[j] <= elFit[i]}
            first == 0 .. EliteSlots(elN) - 1
            cloned == {elNext[k].of : k \in first}
        IN  /\ \E j \in best : \E k \in all : elNext[k] = CloneOf(j)
            /\ elKind = "hillclimb" => \E j \in best : elNext[j] = CloneOf(j)
            /\ elKind = "tournament" =>
                    /\ \A k \in first : elNext[k].how = "clone"
                    /\ Cardinality(cloned) = EliteSlots(elN)
                    /\ \A i \in cloned : \A j \in all \ cloned : elFit[i] >= elFit[j]

\* Tournament on a population large enough for two elites: the two fittest
\* candidates tie and their clones stand in the first two slots, the one of
\* higher index first.
C15_Witness ==
    /\ elPc = "returned"
    /\ elKind = "tournament"
    /\ EliteSlots(elN) = 2
    /\ elNext[0].how = "clone" /\ elNext[1].how = "clone"
    /\ elNext[0].of > elNext[1].of
    /\ elFit[elNext[0].of] = elFit[elNext[1].of]

(***************************************************************************)
(* Properties of analyzeConvergence                                        *)
(***************************************************************************)
\* d_j = |s_{j+1} - s_j|, exactly
ExactDiff(cps, j) == Abs(cps[j + 1].sum - cps[j].sum)

\* the j for which the ratio d_j / d_{j-1} is defined
DefinedRatios(cps) == {j \in 2 .. Len(cps) - 1 : ExactDiff(cps, j - 1) # 0}

\* the sum of the ratios d_j / d_{j-1} over j in J, as a fraction
RECURSIVE RatioSum(_, _)
RatioSum(cps, J) ==
    IF J = {} THEN [n |-> 0, d |-> 1]
    ELSE LET j == CHOOSE x \in J : TRUE
             rest == RatioSum(cps, J \ {j})
         IN  [n |-> rest.n * ExactDiff(cps, j - 1) + ExactDiff(cps, j) * rest.d,
              d |-> rest.d * ExactDiff(cps, j - 1)]

\* C16: analyzeConvergence reports converged if and only if there are at
\* least three checkpoints and either no ratio d_j / d_{j-1} of the exact
\* differences is defined, or every defined ratio is below 1 and the mean of
\* the defined ratios is below 0.99.
C16_ConvergedIff ==
    cvPc = "returned" =>
        LET J == DefinedRatios(cvCps)
            total == RatioSum(cvCps, J)
        IN  cvOut <=>
                /\ Len(cvCps) >= 3
                /\ \/ J = {}
                   \/ /\ \A j \in J : ExactDiff(cvCps, j) < ExactDiff(cvCps, j - 1)
                      /\ 100 * total.n < 99 * Cardinality(J) * total.d

(***************************************************************************)
(* Properties of the digit count                                           *)
(***************************************************************************)
\* C17: the correct-digit count of every fitness returned lies between 0
\* and the cap of its path: 50 digits for ComputeFitness, 15 for
\* ComputeFitnessF64.
C17_DigitsWithinCap ==
    /\ fitPc = "big" => fitOut.CorrectDigits >= 0 /\ fitOut.CorrectDigits <= 10 * MaxDigits
    /\ fitPc = "f64" => fitOut.CorrectDigits >= 0 /\ fitOut.CorrectDigits <= 10 * maxDigitsF64

\* a^b on the integers, with a^0 = 1 for every a
RECURSIVE ExactPow(_, _)
ExactPow(a, b) == IF b = 0 THEN 1 ELSE a * ExactPow(a, b - 1)

\* whether the exact a^b is an int64: every product of the way is one
RECURSIVE PowFits(_, _)
PowFits(a, b) == b = 0 \/ (PowFits(a, b - 1) /\ ExactPow(a, b) \in Ints)

\* whether the exact value of the folded operation is an int64
ExactFits(op, a, b) ==
    CASE op = "OpAdd" -> a + b \in Ints
      [] op = "OpSub" -> a - b \in Ints
      [] op = "OpMul" -> a * b \in Ints
      [] op = "OpDiv" -> TruncQuo(a, b) \in Ints
      [] op = "OpPow" -> PowFits(a, b)
      [] op = "OpNeg" -> 0 - a \in Ints

\* the exact value of the folded operation
ExactFold(op, a, b) ==
    CASE op = "OpAdd" -> a + b
      [] op = "OpSub" -> a - b
      [] op = "OpMul" -> a * b
      [] op = "OpDiv" -> TruncQuo(a, b)
      [] op = "OpPow" -> ExactPow(a, b)
      [] op = "OpNeg" -> 0 - a

\* C19: a fold of add, subtract, multiply, exact divide, small integer power
\* or negation that is made leaves the exact value of the operation: when
\* the exact value is not an int64 the fold is rejected.
C19_FoldRejectsOverflow ==
    fdPc = "done" /\ fdOut.ok =>
        /\ ExactFits(fdOp, fdA, fdB)
        /\ fdOut.val = ExactFold(fdOp, fdA, fdB)

\* C18: the simplifier applied to its own output gives a tree with the same
\* canonical rendering, for SimplifyBigFloat and for Simplify.
C18_Idempotent ==
    smPc = "again" => StringOf(smAgain) = StringOf(smOut)

\* C20: in the final report the attempt records are in attempt order: the
\* record at position i, counted from 0, has attempt index i + 1 (a sequence
\* of the model starts at 1, so its k-th record has attempt index k).
C20_ReportInAttemptOrder ==
    pc = "done" => \A k \in 1 .. Len(finalReport) : finalReport[k].Attempt = k

\* C21: every attempt record is well-formed: the attempt consumed at least
\* one generation, its best candidate is not empty, and BestFoundAtGen is a
\* generation index of the attempt, 0 <= BestFoundAtGen < Generations.
C21_RecordsWellFormed ==
    \A k \in 1 .. Len(hallOfFame) :
        /\ hallOfFame[k].Generations >= 1
        /\ hallOfFame[k].BestCandidate # ""
        /\ 0 <= hallOfFame[k].BestFoundAtGen
        /\ hallOfFame[k].BestFoundAtGen < hallOfFame[k].Generations

\* a second attempt is recorded whose best differs from the first's and was
\* found after its first generation
C21_Witness ==
    /\ Len(hallOfFame) >= 2
    /\ hallOfFame[2].BestFoundAtGen >= 1
    /\ hallOfFame[2].BestCandidate # hallOfFame[1].BestCandidate

\* C22: with a stagnation limit of 0 no attempt ends by stagnation: an
\* attempt ends when the budget is used up or its best reaches the digit cap,
\* and the run consists of exactly one attempt.
C22_NoRestartWithoutLimit ==
    cfg.StagnationLimit = 0 =>
        /\ attempt <= 1
        /\ endedBy \in {"none", "budget", "cap"}
        /\ Len(hallOfFame) <= 1
        /\ pc = "done" => Len(hallOfFame) = 1 /\ hallOfFame[1].Attempt = 1

\* a run without a limit has ended on its budget, after more generations
\* without improvement than the smallest patience
C22_Witness ==
    /\ cfg.StagnationLimit = 0
    /\ pc = "done"
    /\ endedBy = "budget"
    /\ gensSinceImprovement >= MinPatience

\* C23: the clone of a candidate has the rendering and the start index of
\* the original and shares no node object with it, and an in-place change of
\* one of the two leaves the rendering of the other as it was.
C23_CloneIndependent ==
    /\ clPc = "cloned" =>
          /\ StringCand(clHeap, clCopy) = StringCand(clHeap, clOrig)
          /\ NodesOf(clHeap, clCopy) \cap NodesOf(clHeap, clOrig) = {}
    /\ clPc = "changed" =>
          StringCand(clHeap, IF clSide = "original" THEN clCopy ELSE clOrig) = clBefore

\* a node of the original's denominator was changed after the clone, and the
\* original no longer renders as the copy does
C23_Witness ==
    /\ clPc = "changed"
    /\ clSide = "original"
    /\ StringCand(clHeap, clOrig) # StringCand(clHeap, clCopy)
    /\ Render(clHeap, clOrig.den, Len(clHeap)) # Render(clHeap, clCopy.den, Len(clHeap))

\* the rendering of the subtree at pre-order position idx (from 1) of tree r
RECURSIVE RenderAt(_, _, _)
RenderAt(h, r, idx) ==
    IF idx = 1 THEN Render(h, r, Len(h))
    ELSE IF idx - 1 <= Size(h, h[r].kids[1]) THEN RenderAt(h, h[r].kids[1], idx - 1)
    ELSE RenderAt(h, h[r].kids[2], idx - 1 - Size(h, h[r].kids[1]))

\* the rendering of tree r with the subtree at pre-order position idx
\* replaced by the rendering rep
RECURSIVE RenderReplaced(_, _, _, _)
RenderReplaced(h, r, idx, rep) ==
    IF idx = 1 THEN rep
    ELSE IF idx - 1 <= Size(h, h[r].kids[1])
    THEN <<h[r].op>> \o [k \in 1 .. Len(h[r].kids) |->
             IF k = 1 THEN RenderReplaced(h, h[r].kids[1], idx - 1, rep)
             ELSE Render(h, h[r].kids[k], Len(h))]
    ELSE <<h[r].op>> \o [k \in 1 .. Len(h[r].kids) |->
             IF k = 2 THEN RenderReplaced(h, h[r].kids[2], idx - 1 - Size(h, h[r].kids[1]), rep)
             ELSE Render(h, h[r].kids[k], Len(h))]

\* crossoverTrees on the trees a and b at the points x and y returned the
\* trees ca and cb: ca is a with x replaced by b's y, cb is b with y replaced
\* by a's x, and no node is gained or lost
SubtreesExchanged(h, a, b, x, y, ca, cb) ==
    /\ Render(h, ca, Len(h)) = RenderReplaced(h, a, x, RenderAt(h, b, y))
    /\ Render(h, cb, Len(h)) = RenderReplaced(h, b, y, RenderAt(h, a, x))
    /\ Size(h, ca) + Size(h, cb) = Size(h, a) + Size(h, b)

\* C24: for every pair of chosen nodes, the root included, the first child
\* is parent A with its chosen subtree replaced by B's chosen subtree, the
\* second is B with its chosen subtree replaced by A's, and the children
\* have together as many nodes as the parents.
C24_CrossoverExchanges ==
    xoPc = "crossed" =>
        /\ SubtreesExchanged(xoHeap, xoParents.a.num, xoParents.b.num,
                             xoPoints.num[1], xoPoints.num[2],
                             xoChildren.c1.num, xoChildren.c2.num)
        /\ SubtreesExchanged(xoHeap, xoParents.a.den, xoParents.b.den,
                             xoPoints.den[1], xoPoints.den[2],
                             xoChildren.c1.den, xoChildren.c2.den)

\* C25: subtree mutation returns the tree with the chosen node and its
\* descendants replaced by a fresh random tree of depth at most 4, for every
\* node it can choose; when it chooses the root it returns the fresh tree.
C25_SubtreeReplaced ==
    muPc = "out" =>
        /\ Depth(muFresh) <= 4
        /\ Render(muOut.h, muOut.root, Len(muOut.h))
              = RenderReplaced(muIn.h, muIn.root, muIdx, muFresh)
        /\ muIdx = 1 => Render(muOut.h, muOut.root, Len(muOut.h)) = muFresh

\* C26: the best index is the lowest index whose combined fitness is the
\* maximum; in a population of two or more the second-best index is another
\* index, whose fitness is the maximum over all indices but the best.
C26_BestAndSecond ==
    sbPc = "scanned" =>
        /\ sbOut.bestIdx \in 0 .. sbN - 1
        /\ \A i \in 0 .. sbN - 1 : sbFit[i].Combined <= sbFit[sbOut.bestIdx].Combined
        /\ \A i \in 0 .. sbOut.bestIdx - 1 :
              sbFit[i].Combined < sbFit[sbOut.bestIdx].Combined
        /\ sbN >= 2 =>
              /\ sbOut.secondIdx \in 0 .. sbN - 1
              /\ sbOut.secondIdx # sbOut.bestIdx
              /\ \A i \in (0 .. sbN - 1) \ {sbOut.bestIdx} :
                    sbFit[i].Combined <= sbFit[sbOut.secondIdx].Combined

\* three rising fitnesses: the best was replaced twice and the second best
\* is the best of the step before
C26_Witness ==
    /\ sbPc = "scanned"
    /\ sbN >= 3
    /\ sbFit[0].Combined < sbFit[1].Combined
    /\ sbFit[1].Combined < sbFit[2].Combined
    /\ sbOut.bestIdx = 2
    /\ sbOut.secondIdx = 1

\* the single-ratio test on three sums in chronological order:
\* d1/d0 < 0.99, or d0 = 0
SingleRatio(s0, s1, s2) ==
    LET d0 == Abs(s1 - s0)
        d1 == Abs(s2 - s1)
    IN  d0 = 0 \/ 100 * d1 < 99 * d0

\* C27: with three or more checkpoints recorded, the ring buffer holds the
\* last three sums, each once and in the order found from the oldest slot,
\* and the fast path's decision is the single-ratio test on them.
C27_RingIsLastThree ==
    Len(rgList) >= 3 =>
        LET k == Len(rgList)
            oldest == (rgCount - 3) % 3
        IN  /\ rgCount = k
            /\ \A j \in 0 .. 2 : rgRing[((oldest + j) % 3) + 1] = rgList[k - 2 + j]
            /\ rgPc = "analyzed" =>
                  rgOut = SingleRatio(rgList[k - 2], rgList[k - 1], rgList[k])

\* four checkpoints: the fourth has overwritten the first slot, the last
\* three differences shrink and the decision is "converged", where the same
\* test on the slots in index order is not
C27_Witness ==
    /\ rgPc = "analyzed"
    /\ Len(rgList) = 4
    /\ rgOut
    /\ rgList[3] # rgList[2]
    /\ ~SingleRatio(rgRing[1], rgRing[2], rgRing[3])

\* C28: at every index n at which a tree evaluates, its simplified form
\* evaluates too, and to the same value.
C28_SimplifyPreservesValue ==
    (eqPc = "evaluated" /\ eqBefore.ok) => eqAfter = eqBefore

\* C29: two hall-of-fame entries whose combined fitness is above the
\* worst-fitness sentinel never name the same candidate.
C29_DistinctAboveWorst ==
    \A i, j \in 1 .. Len(hallOfFame) :
        (/\ i < j
         /\ hallOfFame[i].BestFitness.Combined > WorstFitness.Combined
         /\ hallOfFame[j].BestFitness.Combined > WorstFitness.Combined)
            => hallOfFame[i].BestCandidate # hallOfFame[j].BestCandidate

\* a later attempt met only candidates that earlier attempts had recorded:
\* its entry repeats a candidate, at the worst fitness, after two entries
\* above it
C29_Witness ==
    /\ Len(hallOfFame) >= 3
    /\ hallOfFame[1].BestFitness.Combined > WorstFitness.Combined
    /\ hallOfFame[2].BestFitness.Combined > WorstFitness.Combined
    /\ hallOfFame[3].BestFitness.Combined = WorstFitness.Combined
    /\ hallOfFame[3].BestCandidate \in {hallOfFame[1].BestCandidate, hallOfFame[2].BestCandidate}

\* the combined fitness of the best of the generation just evaluated
GenerationBest == fitnesses[FindBest(fitnesses, 0, 0, -1).bestIdx].Combined

\* C30: without timeouts, the best combined fitness of a generation is never
\* below that of the generations before it in the attempt, and
\* gensSinceImprovement grows only in a generation whose best equals the
\* attempt's best.
C30_BestNeverDecreases ==
    [][pc = "select" =>
          /\ GenerationBest >= bestThisAttemptFitness.Combined
          /\ gensSinceImprovement' = gensSinceImprovement + 1 =>
                GenerationBest = bestThisAttemptFitness.Combined]_vars

\* a generation after the first has been evaluated, its best is the
\* attempt's best and the counter has grown before
C30_Witness ==
    /\ pc = "select"
    /\ attemptGens >= 2
    /\ gensSinceImprovement >= 1
    /\ GenerationBest = bestThisAttemptFitness.Combined
    /\ GenerationBest > WorstFitness.Combined
====
